---- MODULE Spec2Model ----
(***************************************************************************)
(* Inventory-consistent order composition of the pizza ordering backend:   *)
(* the order endpoints (app/api/v1/endpoints/order/router.py), the order   *)
(* CRUD layer (order/crud.py) and the stock ledger (order/stock_logic).    *)
(* A request handler is one atomic action where requests run one after the *)
(* other, and one action per database access where requests of several     *)
(* clients interleave; the HTTP outcome of the last finished request is     *)
(* kept in the variable last.                                              *)
(***************************************************************************)
EXTENDS Integers, Sequences, FiniteSets, TLC

\* ---------------------------------------------------------------- bounds
MaxOrders == 2
MaxPizzas == 2
MaxQuantity == 2
MaxStock == 2
MaxPrice == 2

\* ------------------------------------------------------------ identifiers
OrderIds == 1..MaxOrders
PizzaIds == 1..MaxPizzas
NoOrder == MaxOrders + 1   \* an id no stored order has
NoPizza == MaxPizzas + 1   \* an id no stored pizza has
Doughs == {"d1", "d2"}
Toppings == {"t1", "t2"}
Beverages == {"b1", "b2"}
PizzaTypeIds == {"pt1", "pt2"}
Users == {"u1", "u2"}
Clients == {"c1", "c2"}
NoUser == "no_user"
NoPizzaType == "no_pizza_type"
NoBeverage == "no_beverage"
NoKind == "no_kind"
NoItem == "no_item"
NoName == "no_name"
\* the body of a catalog request: a CreateSchema of the kind addressed
NoSchema == [name |-> NoName, price |-> 0, stock |-> 0, dough_id |-> NoItem]
NoCopy == MaxOrders + 2    \* copy_order_id = None

\* HTTP outcomes of the handlers
HTTP_200_OK == 200
HTTP_201_CREATED == 201
HTTP_204_NO_CONTENT == 204
HTTP_303_SEE_OTHER == 303
HTTP_400_BAD_REQUEST == 400
HTTP_404_NOT_FOUND == 404
HTTP_409_CONFLICT == 409
HTTP_422_UNPROCESSABLE_ENTITY == 422
HTTP_500_INTERNAL_SERVER_ERROR == 500

TRANSMITTED == "TRANSMITTED"
PREPARING == "PREPARING"
COMPLETED == "COMPLETED"
OrderStatus == {TRANSMITTED, PREPARING, COMPLETED}
NoStatus == "no_status"

\* the status tokens a caller may send, and str.upper on them
StatusInputs == {"TRANSMITTED", "preparing", "COMPLETED", "unknown"}
upper(token) ==
    CASE token = "preparing" -> "PREPARING"
      [] token = "unknown" -> "UNKNOWN"
      [] OTHER -> token

\* catalog and stock the runs start from
InitialPizzaTypes ==
    [pt \in PizzaTypeIds |->
        IF pt = "pt1" THEN [dough |-> "d1", toppings |-> [t \in {"t1"} |-> 2]]
                      ELSE [dough |-> "d2", toppings |-> [t \in {"t2"} |-> 1]]]
InitialDoughStock == [d \in Doughs |-> 2]
InitialToppingStock == [t \in Toppings |-> IF t = "t1" THEN 4 ELSE 1]
InitialBeverageStock == [b \in Beverages |-> 2]

\* the four catalog tables; a row the runs start from is named after its id
Kinds == {"dough", "topping", "beverage", "pizza_type"}
InitialRows(kind) ==
    CASE kind = "dough" -> Doughs
      [] kind = "topping" -> Toppings
      [] kind = "beverage" -> Beverages
      [] kind = "pizza_type" -> PizzaTypeIds
InitialCatalog ==
    [kind \in Kinds |-> [id \in InitialRows(kind) |-> [name |-> id, price |-> 1]]]

VARIABLES
    orders,          \* table Order: id -> [user_id, order_status]
    pizzas,          \* table Pizza: id -> [order_id, pizza_type_id]
    order_beverages, \* table OrderBeverageQuantity: <<order_id, beverage_id>> -> quantity
    pizza_types,     \* table PizzaType: id -> [dough, toppings (topping -> quantity)]
    dough_stock,     \* Dough.stock
    topping_stock,   \* Topping.stock
    beverage_stock,  \* Beverage.stock
    catalog,         \* per kind, the name and price of each row: kind -> id -> [name, price]
    last,            \* the last request and its HTTP outcome
    requests         \* the request each client has in flight, and where it stands

vars == <<orders, pizzas, order_beverages, pizza_types,
          dough_stock, topping_stock, beverage_stock, catalog, last, requests>>

stock_vars == <<dough_stock, topping_stock, beverage_stock>>

\* ------------------------------------------------------- generic helpers
Min(S) == CHOOSE x \in S : \A y \in S : x <= y

RECURSIVE SumOver(_, _)
SumOver(S, f) ==
    IF S = {} THEN 0
    ELSE LET x == CHOOSE y \in S : TRUE IN f[x] + SumOver(S \ {x}, f)

\* all the orders in which a query without ORDER BY may return the rows S
Orderings(S) ==
    {s \in [1..Cardinality(S) -> S] : \A i, j \in 1..Cardinality(S) : s[i] = s[j] => i = j}

Put(f, k, v) == [x \in (DOMAIN f) \cup {k} |-> IF x = k THEN v ELSE f[x]]
Drop(f, S) == [x \in (DOMAIN f) \ S |-> f[x]]
EmptyTable == [x \in {} |-> 0]

\* the database as one request's session sees it
DB ==
    [orders |-> orders, pizzas |-> pizzas, order_beverages |-> order_beverages,
     pizza_types |-> pizza_types, dough_stock |-> dough_stock,
     topping_stock |-> topping_stock, beverage_stock |-> beverage_stock,
     catalog |-> catalog]

Commit(db) ==
    /\ orders' = db.orders
    /\ pizzas' = db.pizzas
    /\ order_beverages' = db.order_beverages
    /\ pizza_types' = db.pizza_types
    /\ dough_stock' = db.dough_stock
    /\ topping_stock' = db.topping_stock
    /\ beverage_stock' = db.beverage_stock
    /\ catalog' = db.catalog

\* rows owned by an order
PizzasOf(order_id, db) == {p \in DOMAIN db.pizzas : db.pizzas[p].order_id = order_id}
BeveragesOf(order_id, db) == {k \in DOMAIN db.order_beverages : k[1] = order_id}

\* ------------------------------------------------------------ stock ledger
\* mutant: the toppings are not looked at
ingredients_are_available_dough_only(pizza_type_id, db) ==
    db.dough_stock[db.pizza_types[pizza_type_id].dough] # 0

\* stock_ingredients_crud.ingredients_are_available
ingredients_are_available(pizza_type_id, db) ==
    LET pizza_type == db.pizza_types[pizza_type_id] IN
    IF db.dough_stock[pizza_type.dough] = 0 THEN FALSE
    ELSE \A t \in DOMAIN pizza_type.toppings :
            ~(db.topping_stock[t] < pizza_type.toppings[t])

\* stock_ingredients_crud.reduce_stock_of_ingredients
reduce_stock_of_ingredients(pizza_type_id, db) ==
    LET pizza_type == db.pizza_types[pizza_type_id] IN
    [db EXCEPT
        !.dough_stock[pizza_type.dough] = @ - 1,
        !.topping_stock = [t \in DOMAIN @ |->
            IF t \in DOMAIN pizza_type.toppings THEN @[t] - pizza_type.toppings[t] ELSE @[t]]]

\* stock_ingredients_crud.increase_stock_of_ingredients
increase_stock_of_ingredients(pizza_type_id, db) ==
    LET pizza_type == db.pizza_types[pizza_type_id] IN
    [db EXCEPT
        !.dough_stock[pizza_type.dough] = @ + 1,
        !.topping_stock = [t \in DOMAIN @ |->
            IF t \in DOMAIN pizza_type.toppings THEN @[t] + pizza_type.toppings[t] ELSE @[t]]]

\* stock_beverage_crud.beverage_is_available: true iff beverage.stock >= quantity
beverage_is_available(beverage_id, quantity, db) ==
    db.beverage_stock[beverage_id] >= quantity

\* mutant: the update is applied whatever the result
change_stock_of_beverage_unguarded(beverage_id, delta, db) ==
    [ok |-> TRUE, db |-> [db EXCEPT !.beverage_stock[beverage_id] = @ + delta]]

\* stock_beverage_crud.change_stock_of_beverage: the bounded update of a
\* beverage's stock; refuses (no mutation) a result below zero
change_stock_of_beverage(beverage_id, delta, db) ==
    IF db.beverage_stock[beverage_id] + delta < 0
    THEN [ok |-> FALSE, db |-> db]
    ELSE [ok |-> TRUE, db |-> [db EXCEPT !.beverage_stock[beverage_id] = @ + delta]]

\* ------------------------------------------------------------- order CRUD
\* user_crud.get_user_by_id: the row, or none
get_user_by_id(user_id, db) == user_id \in Users

\* order_crud.get_order_by_id: the row, or none
get_order_by_id(order_id, db) == order_id \in DOMAIN db.orders

\* order_crud.create_order: a new row with a fresh id, status TRANSMITTED
NewOrderId(db) ==
    IF OrderIds \subseteq DOMAIN db.orders THEN NoOrder ELSE Min(OrderIds \ DOMAIN db.orders)
order_crud_create_order(user_id, db) ==
    [db EXCEPT !.orders = Put(@, NewOrderId(db),
        [user_id |-> user_id, order_status |-> TRANSMITTED])]

\* Order.pizzas and Order.beverages are owned by the order: its pizzas and
\* beverage lines are destroyed with it
delete_owned_rows(order_id, db) ==
    [db EXCEPT !.pizzas = Drop(@, PizzasOf(order_id, db)),
               !.order_beverages = Drop(@, BeveragesOf(order_id, db))]

\* order_crud.delete_order_by_id
order_crud_delete_order_by_id(order_id, db) ==
    IF get_order_by_id(order_id, db)
    THEN [delete_owned_rows(order_id, db) EXCEPT !.orders = Drop(@, {order_id})]
    ELSE db

\* order_crud.update_order_status
order_crud_update_order_status(order_id, changed_order, db) ==
    [db EXCEPT !.orders[order_id].order_status = changed_order]

\* order_crud.create_pizza + order_crud.add_pizza_to_order
NewPizzaId(db) ==
    IF PizzaIds \subseteq DOMAIN db.pizzas THEN NoPizza ELSE Min(PizzaIds \ DOMAIN db.pizzas)
order_crud_add_pizza_to_order(order_id, pizza_type_id, db) ==
    [db EXCEPT !.pizzas = Put(@, NewPizzaId(db),
        [order_id |-> order_id, pizza_type_id |-> pizza_type_id])]

\* order_crud.get_pizza_by_id
get_pizza_by_id(pizza_id, db) == pizza_id \in DOMAIN db.pizzas

\* mutant: the pizza is looked up by its id alone
order_crud_delete_pizza_by_id(order_id, pizza_id, db) ==
    IF pizza_id \in DOMAIN db.pizzas
    THEN [ok |-> TRUE, db |-> [db EXCEPT !.pizzas = Drop(@, {pizza_id})]]
    ELSE [ok |-> FALSE, db |-> db]

\* order_crud.delete_pizza_from_order: the pizza is looked up by order and id
order_crud_delete_pizza_from_order(order_id, pizza_id, db) ==
    IF pizza_id \in DOMAIN db.pizzas /\ db.pizzas[pizza_id].order_id = order_id
    THEN [ok |-> TRUE, db |-> [db EXCEPT !.pizzas = Drop(@, {pizza_id})]]
    ELSE [ok |-> FALSE, db |-> db]

\* order_crud.create_beverage_quantity
order_crud_create_beverage_quantity(order_id, beverage_id, quantity, db) ==
    [db EXCEPT !.order_beverages = Put(@, <<order_id, beverage_id>>, quantity)]

\* order_crud.get_beverage_quantity_by_id
get_beverage_quantity_by_id(order_id, beverage_id, db) ==
    <<order_id, beverage_id>> \in DOMAIN db.order_beverages

\* order_crud.update_beverage_quantity_of_order
order_crud_update_beverage_quantity_of_order(order_id, beverage_id, new_quantity, db) ==
    IF get_beverage_quantity_by_id(order_id, beverage_id, db)
    THEN [db EXCEPT !.order_beverages[<<order_id, beverage_id>>] = new_quantity]
    ELSE db

\* order_crud.delete_beverage_from_order
order_crud_delete_beverage_from_order(order_id, beverage_id, db) ==
    IF get_beverage_quantity_by_id(order_id, beverage_id, db)
    THEN [db EXCEPT !.order_beverages = Drop(@, {<<order_id, beverage_id>>})]
    ELSE db

\* ------------------------------------------------------- request handlers
\* every handler returns the HTTP status and the database it leaves behind
Response(status, db) == [status |-> status, db |-> db]

\* mutant: a completed order keeps its status
update_order_status_guarded(order_id, order_status, db) ==
    IF ~get_order_by_id(order_id, db) THEN Response(HTTP_404_NOT_FOUND, db)
    ELSE IF upper(order_status) \notin OrderStatus
    THEN Response(HTTP_422_UNPROCESSABLE_ENTITY, db)
    ELSE IF db.orders[order_id].order_status = COMPLETED
    THEN Response(HTTP_409_CONFLICT, db)
    ELSE Response(HTTP_204_NO_CONTENT,
            order_crud_update_order_status(order_id, upper(order_status), db))

\* router.update_order_status
update_order_status(order_id, order_status, db) ==
    IF ~get_order_by_id(order_id, db) THEN Response(HTTP_404_NOT_FOUND, db)
    ELSE IF upper(order_status) \notin OrderStatus
    THEN Response(HTTP_422_UNPROCESSABLE_ENTITY, db)
    ELSE Response(HTTP_204_NO_CONTENT,
            order_crud_update_order_status(order_id, upper(order_status), db))

\* router.create_order, lines 124-131: the loop over copy_order.pizzas
RECURSIVE copy_pizzas(_, _, _, _)
copy_pizzas(rows, i, new_order_id, db) ==
    IF i > Len(rows) THEN [ok |-> TRUE, db |-> db]
    ELSE LET pizza_type_id == db.pizzas[rows[i]].pizza_type_id IN
         IF ~ingredients_are_available(pizza_type_id, db)
         THEN [ok |-> FALSE, db |-> order_crud_delete_order_by_id(new_order_id, db)]
         ELSE copy_pizzas(rows, i + 1, new_order_id,
                reduce_stock_of_ingredients(pizza_type_id,
                    order_crud_add_pizza_to_order(new_order_id, pizza_type_id, db)))

\* mutant: the lines are copied without taking their quantity from the stock
RECURSIVE copy_beverages_unreduced(_, _, _, _)
copy_beverages_unreduced(rows, i, new_order_id, db) ==
    IF i > Len(rows) THEN [ok |-> TRUE, db |-> db]
    ELSE LET beverage_id == rows[i][2]
             quantity == db.order_beverages[rows[i]]
         IN IF ~beverage_is_available(beverage_id, quantity, db)
            THEN [ok |-> FALSE, db |-> order_crud_delete_order_by_id(new_order_id, db)]
            ELSE copy_beverages_unreduced(rows, i + 1, new_order_id,
                    order_crud_create_beverage_quantity(new_order_id, beverage_id,
                                                        quantity, db))

\* router.create_order, lines 133-141: the loop over copy_order.beverages
RECURSIVE copy_beverages(_, _, _, _)
copy_beverages(rows, i, new_order_id, db) ==
    IF i > Len(rows) THEN [ok |-> TRUE, db |-> db]
    ELSE LET beverage_id == rows[i][2]
             quantity == db.order_beverages[rows[i]]
             changed == change_stock_of_beverage(beverage_id, -quantity, db)
         IN IF ~changed.ok
            THEN [ok |-> FALSE, db |-> order_crud_delete_order_by_id(new_order_id, changed.db)]
            ELSE copy_beverages(rows, i + 1, new_order_id,
                    order_crud_create_beverage_quantity(new_order_id, beverage_id,
                                                        quantity, changed.db))

\* mutant: the new order takes the status of its template
create_order_with_template_status(user_id, copy_order_id, pizza_rows, beverage_rows, db) ==
    IF ~get_user_by_id(user_id, db) THEN Response(HTTP_404_NOT_FOUND, db)
    ELSE LET new_order_id == NewOrderId(db)
             created == order_crud_create_order(user_id, db)
         IN IF copy_order_id = NoCopy THEN Response(HTTP_201_CREATED, created)
            ELSE IF ~get_order_by_id(copy_order_id, created)
            THEN Response(HTTP_404_NOT_FOUND,
                          order_crud_delete_order_by_id(new_order_id, created))
            ELSE LET copied == copy_pizzas(pizza_rows, 1, new_order_id, created) IN
                 IF ~copied.ok THEN Response(HTTP_409_CONFLICT, copied.db)
                 ELSE LET poured == copy_beverages(beverage_rows, 1, new_order_id, copied.db) IN
                      IF ~poured.ok THEN Response(HTTP_409_CONFLICT, poured.db)
                      ELSE Response(HTTP_201_CREATED,
                              order_crud_update_order_status(new_order_id,
                                  db.orders[copy_order_id].order_status, poured.db))

\* mutant: the new order stays when its template is not found
create_order_keeping_order(user_id, copy_order_id, pizza_rows, beverage_rows, db) ==
    IF ~get_user_by_id(user_id, db) THEN Response(HTTP_404_NOT_FOUND, db)
    ELSE LET new_order_id == NewOrderId(db)
             created == order_crud_create_order(user_id, db)
         IN IF copy_order_id = NoCopy THEN Response(HTTP_201_CREATED, created)
            ELSE IF ~get_order_by_id(copy_order_id, created)
            THEN Response(HTTP_404_NOT_FOUND, created)
            ELSE LET copied == copy_pizzas(pizza_rows, 1, new_order_id, created) IN
                 IF ~copied.ok THEN Response(HTTP_409_CONFLICT, copied.db)
                 ELSE LET poured == copy_beverages(beverage_rows, 1, new_order_id, copied.db) IN
                      IF ~poured.ok THEN Response(HTTP_409_CONFLICT, poured.db)
                      ELSE Response(HTTP_201_CREATED, poured.db)

\* router.create_order; pizza_rows and beverage_rows are the template's rows
\* in the order the database returns them
create_order(user_id, copy_order_id, pizza_rows, beverage_rows, db) ==
    IF ~get_user_by_id(user_id, db) THEN Response(HTTP_404_NOT_FOUND, db)
    ELSE LET new_order_id == NewOrderId(db)
             created == order_crud_create_order(user_id, db)
         IN IF copy_order_id = NoCopy THEN Response(HTTP_201_CREATED, created)
            ELSE IF ~get_order_by_id(copy_order_id, created)
            THEN Response(HTTP_404_NOT_FOUND,
                          order_crud_delete_order_by_id(new_order_id, created))
            ELSE LET copied == copy_pizzas(pizza_rows, 1, new_order_id, created) IN
                 IF ~copied.ok THEN Response(HTTP_409_CONFLICT, copied.db)
                 ELSE LET poured == copy_beverages(beverage_rows, 1, new_order_id, copied.db) IN
                      IF ~poured.ok THEN Response(HTTP_409_CONFLICT, poured.db)
                      ELSE Response(HTTP_201_CREATED, poured.db)

\* router.delete_order, lines 168-169: stock of every pizza of the order
RECURSIVE restore_pizzas(_, _)
restore_pizzas(rows, db) ==
    IF rows = {} THEN db
    ELSE LET p == CHOOSE x \in rows : TRUE IN
         restore_pizzas(rows \ {p},
            increase_stock_of_ingredients(db.pizzas[p].pizza_type_id, db))

\* router.delete_order, lines 171-172: stock of every beverage line of the order
RECURSIVE restore_beverages(_, _)
restore_beverages(rows, db) ==
    IF rows = {} THEN db
    ELSE LET k == CHOOSE x \in rows : TRUE IN
         restore_beverages(rows \ {k},
            change_stock_of_beverage(k[2], db.order_beverages[k], db).db)

\* mutant: the beverage lines are deleted without giving their stock back
delete_order_pizzas_only(order_id, db) ==
    IF ~get_order_by_id(order_id, db) THEN Response(HTTP_404_NOT_FOUND, db)
    ELSE Response(HTTP_204_NO_CONTENT,
            order_crud_delete_order_by_id(order_id,
                restore_pizzas(PizzasOf(order_id, db), db)))

\* router.delete_order
delete_order(order_id, db) ==
    IF ~get_order_by_id(order_id, db) THEN Response(HTTP_404_NOT_FOUND, db)
    ELSE Response(HTTP_204_NO_CONTENT,
            order_crud_delete_order_by_id(order_id,
                restore_beverages(BeveragesOf(order_id, db),
                    restore_pizzas(PizzasOf(order_id, db), db))))

\* mutant: a completed order takes no more pizzas
add_pizza_to_order_while_open(order_id, pizza_type_id, db) ==
    IF ~get_order_by_id(order_id, db) THEN Response(HTTP_404_NOT_FOUND, db)
    ELSE IF db.orders[order_id].order_status = COMPLETED THEN Response(HTTP_409_CONFLICT, db)
    ELSE IF pizza_type_id \notin DOMAIN db.pizza_types THEN Response(HTTP_404_NOT_FOUND, db)
    ELSE IF ~ingredients_are_available(pizza_type_id, db) THEN Response(HTTP_409_CONFLICT, db)
    ELSE Response(HTTP_200_OK,
            order_crud_add_pizza_to_order(order_id, pizza_type_id,
                reduce_stock_of_ingredients(pizza_type_id, db)))

\* router.add_pizza_to_order
add_pizza_to_order(order_id, pizza_type_id, db) ==
    IF ~get_order_by_id(order_id, db) THEN Response(HTTP_404_NOT_FOUND, db)
    ELSE IF pizza_type_id \notin DOMAIN db.pizza_types THEN Response(HTTP_404_NOT_FOUND, db)
    ELSE IF ~ingredients_are_available(pizza_type_id, db) THEN Response(HTTP_409_CONFLICT, db)
    ELSE Response(HTTP_200_OK,
            order_crud_add_pizza_to_order(order_id, pizza_type_id,
                reduce_stock_of_ingredients(pizza_type_id, db)))

\* router.delete_pizza_from_order
delete_pizza_from_order(order_id, pizza_id, db) ==
    IF ~get_order_by_id(order_id, db) THEN Response(HTTP_404_NOT_FOUND, db)
    ELSE IF ~get_pizza_by_id(pizza_id, db) THEN Response(HTTP_404_NOT_FOUND, db)
    ELSE LET restored == increase_stock_of_ingredients(db.pizzas[pizza_id].pizza_type_id, db)
             deleted == order_crud_delete_pizza_from_order(order_id, pizza_id, restored)
         IN IF ~deleted.ok THEN Response(HTTP_404_NOT_FOUND, deleted.db)
            ELSE Response(HTTP_200_OK, deleted.db)

\* mutant: the line is created without asking whether the stock suffices
create_order_beverage_unchecked(order_id, beverage_id, quantity, db) ==
    IF ~get_order_by_id(order_id, db) THEN Response(HTTP_404_NOT_FOUND, db)
    ELSE IF quantity <= 0 THEN Response(HTTP_422_UNPROCESSABLE_ENTITY, db)
    ELSE IF beverage_id \notin Beverages THEN Response(HTTP_404_NOT_FOUND, db)
    ELSE IF get_beverage_quantity_by_id(order_id, beverage_id, db)
    THEN Response(HTTP_303_SEE_OTHER, db)
    ELSE Response(HTTP_201_CREATED,
            order_crud_create_beverage_quantity(order_id, beverage_id, quantity,
                change_stock_of_beverage(beverage_id, -quantity, db).db))

\* mutant: an existing line of the order is not looked for
create_order_beverage_again(order_id, beverage_id, quantity, db) ==
    IF ~get_order_by_id(order_id, db) THEN Response(HTTP_404_NOT_FOUND, db)
    ELSE IF quantity <= 0 THEN Response(HTTP_422_UNPROCESSABLE_ENTITY, db)
    ELSE IF beverage_id \notin Beverages THEN Response(HTTP_404_NOT_FOUND, db)
    ELSE IF ~beverage_is_available(beverage_id, quantity, db)
    THEN Response(HTTP_409_CONFLICT, db)
    ELSE Response(HTTP_201_CREATED,
            order_crud_create_beverage_quantity(order_id, beverage_id, quantity,
                change_stock_of_beverage(beverage_id, -quantity, db).db))

\* mutant: only negative quantities are refused
create_order_beverage_zero_allowed(order_id, beverage_id, quantity, db) ==
    IF ~get_order_by_id(order_id, db) THEN Response(HTTP_404_NOT_FOUND, db)
    ELSE IF quantity < 0 THEN Response(HTTP_422_UNPROCESSABLE_ENTITY, db)
    ELSE IF beverage_id \notin Beverages THEN Response(HTTP_404_NOT_FOUND, db)
    ELSE IF get_beverage_quantity_by_id(order_id, beverage_id, db)
    THEN Response(HTTP_303_SEE_OTHER, db)
    ELSE IF ~beverage_is_available(beverage_id, quantity, db)
    THEN Response(HTTP_409_CONFLICT, db)
    ELSE Response(HTTP_201_CREATED,
            order_crud_create_beverage_quantity(order_id, beverage_id, quantity,
                change_stock_of_beverage(beverage_id, -quantity, db).db))

\* router.create_order_beverage
create_order_beverage(order_id, beverage_id, quantity, db) ==
    IF ~get_order_by_id(order_id, db) THEN Response(HTTP_404_NOT_FOUND, db)
    ELSE IF quantity <= 0 THEN Response(HTTP_422_UNPROCESSABLE_ENTITY, db)
    ELSE IF beverage_id \notin Beverages THEN Response(HTTP_404_NOT_FOUND, db)
    ELSE IF get_beverage_quantity_by_id(order_id, beverage_id, db)
    THEN Response(HTTP_303_SEE_OTHER, db)
    ELSE IF ~beverage_is_available(beverage_id, quantity, db)
    THEN Response(HTTP_409_CONFLICT, db)
    ELSE Response(HTTP_201_CREATED,
            order_crud_create_beverage_quantity(order_id, beverage_id, quantity,
                change_stock_of_beverage(beverage_id, -quantity, db).db))

\* mutant: the result of change_stock_of_beverage is not looked at
update_beverage_of_order_unchecked(order_id, beverage_id, quantity, db) ==
    IF ~get_order_by_id(order_id, db) THEN Response(HTTP_404_NOT_FOUND, db)
    ELSE IF quantity <= 0 THEN Response(HTTP_422_UNPROCESSABLE_ENTITY, db)
    ELSE IF ~get_beverage_quantity_by_id(order_id, beverage_id, db)
    THEN Response(HTTP_404_NOT_FOUND, db)
    ELSE LET old_quantity == db.order_beverages[<<order_id, beverage_id>>]
             changed == change_stock_of_beverage(beverage_id, old_quantity - quantity, db)
         IN Response(HTTP_200_OK,
                order_crud_update_beverage_quantity_of_order(order_id, beverage_id,
                                                             quantity, changed.db))

\* router.update_beverage_of_order
update_beverage_of_order(order_id, beverage_id, quantity, db) ==
    IF ~get_order_by_id(order_id, db) THEN Response(HTTP_404_NOT_FOUND, db)
    ELSE IF quantity <= 0 THEN Response(HTTP_422_UNPROCESSABLE_ENTITY, db)
    ELSE IF ~get_beverage_quantity_by_id(order_id, beverage_id, db)
    THEN Response(HTTP_404_NOT_FOUND, db)
    ELSE LET old_quantity == db.order_beverages[<<order_id, beverage_id>>]
             changed == change_stock_of_beverage(beverage_id, old_quantity - quantity, db)
         IN IF ~changed.ok THEN Response(HTTP_409_CONFLICT, changed.db)
            ELSE Response(HTTP_200_OK,
                    order_crud_update_beverage_quantity_of_order(order_id, beverage_id,
                                                                 quantity, changed.db))

\* mutant: the line is deleted without giving its stock back
delete_beverage_from_order_unrestored(order_id, beverage_id, db) ==
    IF ~get_order_by_id(order_id, db) THEN Response(HTTP_404_NOT_FOUND, db)
    ELSE IF ~get_beverage_quantity_by_id(order_id, beverage_id, db)
    THEN Response(HTTP_404_NOT_FOUND, db)
    ELSE Response(HTTP_204_NO_CONTENT,
            order_crud_delete_beverage_from_order(order_id, beverage_id, db))

\* router.delete_beverage_from_order
delete_beverage_from_order(order_id, beverage_id, db) ==
    IF ~get_order_by_id(order_id, db) THEN Response(HTTP_404_NOT_FOUND, db)
    ELSE IF ~get_beverage_quantity_by_id(order_id, beverage_id, db)
    THEN Response(HTTP_404_NOT_FOUND, db)
    ELSE Response(HTTP_204_NO_CONTENT,
            order_crud_delete_beverage_from_order(order_id, beverage_id,
                change_stock_of_beverage(beverage_id,
                    db.order_beverages[<<order_id, beverage_id>>], db).db))

\* ------------------------------------------------------------ the requests
Request(op, user, order, copy, pizza, ptype, bev, qty, target, response) ==
    [op |-> op, user_id |-> user, order_id |-> order, copy_order_id |-> copy,
     pizza_id |-> pizza, pizza_type_id |-> ptype, beverage_id |-> bev,
     quantity |-> qty,
     \* rows the addressed order (the template, for a copy) held on arrival
     n_pizzas |-> Cardinality(PizzasOf(target, DB)),
     n_beverages |-> Cardinality(BeveragesOf(target, DB)),
     \* its status on arrival, and the status token of the request
     was_status |-> IF target \in DOMAIN orders THEN orders[target].order_status
                                                ELSE NoStatus,
     order_status |-> NoStatus,
     \* what a query was asked and what it returned; the catalog row addressed
     statuses |-> {}, result |-> {}, price |-> 0,
     kind |-> NoKind, item_id |-> NoItem, schema |-> NoSchema,
     status |-> response.status]

\* a direct call of a stock ledger function and what it returned
Call(op, ptype, bev, qty, returned) ==
    [op |-> op, user_id |-> NoUser, order_id |-> NoOrder, copy_order_id |-> NoCopy,
     pizza_id |-> NoPizza, pizza_type_id |-> ptype, beverage_id |-> bev,
     quantity |-> qty, n_pizzas |-> 0, n_beverages |-> 0,
     was_status |-> NoStatus, order_status |-> NoStatus,
     statuses |-> {}, result |-> {}, price |-> 0,
     kind |-> NoKind, item_id |-> NoItem, schema |-> NoSchema,
     status |-> IF returned THEN HTTP_200_OK ELSE HTTP_409_CONFLICT]

OrderInputs == (DOMAIN orders) \cup {NoOrder}
PizzaInputs == (DOMAIN pizzas) \cup {NoPizza}
PizzaTypeInputs == PizzaTypeIds \cup {NoPizzaType}
BeverageInputs == Beverages \cup {NoBeverage}
QuantityInputs == (-1)..MaxQuantity
\* the callers of the order runs, and every caller
UserInputs == {"u1", NoUser}
AnyUserInputs == Users \cup {NoUser}
CopyInputs == (DOMAIN orders) \cup {NoOrder, NoCopy}

\* a client without a request in flight
Idle == [pc |-> "idle"]

\* the model keeps every stock counter within the bound
StockBounded(db) ==
    /\ \A d \in Doughs : db.dough_stock[d] <= MaxStock
    /\ \A t \in Toppings : db.topping_stock[t] <= 2 * MaxStock
    /\ \A b \in Beverages : db.beverage_stock[b] <= MaxStock

Init ==
    /\ orders = EmptyTable
    /\ pizzas = EmptyTable
    /\ order_beverages = EmptyTable
    /\ pizza_types = InitialPizzaTypes
    /\ dough_stock = InitialDoughStock
    /\ topping_stock = InitialToppingStock
    /\ beverage_stock = InitialBeverageStock
    /\ catalog = InitialCatalog
    /\ last = [op |-> "none", user_id |-> NoUser, order_id |-> NoOrder,
               copy_order_id |-> NoCopy, pizza_id |-> NoPizza,
               pizza_type_id |-> NoPizzaType, beverage_id |-> NoBeverage,
               quantity |-> 0, n_pizzas |-> 0, n_beverages |-> 0,
               was_status |-> NoStatus, order_status |-> NoStatus,
               statuses |-> {}, result |-> {}, price |-> 0,
               kind |-> NoKind, item_id |-> NoItem, schema |-> NoSchema,
               status |-> HTTP_200_OK]
    /\ requests = [c \in Clients |-> Idle]

CreateOrderBy(users, copies) ==
    \E user_id \in users, copy_order_id \in copies :
        /\ user_id \in Users => NewOrderId(DB) # NoOrder
        /\ Cardinality(PizzasOf(copy_order_id, DB)) <= Cardinality(PizzaIds \ DOMAIN pizzas)
        /\ \E pizza_rows \in Orderings(PizzasOf(copy_order_id, DB)),
              beverage_rows \in Orderings(BeveragesOf(copy_order_id, DB)) :
            LET response == create_order(user_id, copy_order_id, pizza_rows, beverage_rows, DB) IN
            /\ Commit(response.db)
            /\ last' = Request("create_order", user_id,
                               IF response.status = HTTP_201_CREATED THEN NewOrderId(DB) ELSE NoOrder,
                               copy_order_id, NoPizza, NoPizzaType, NoBeverage, 0,
                               copy_order_id, response)
            /\ UNCHANGED requests

CreateOrderFrom(copies) == CreateOrderBy(UserInputs, copies)

\* POST /orders without and with copy_order_id
CreatePlainOrder == CreateOrderFrom({NoCopy})
CreateOrder == CreateOrderFrom(CopyInputs)

UpdateOrderStatusTo(tokens) ==
    \E order_id \in OrderInputs, order_status \in tokens :
        LET response == update_order_status(order_id, order_status, DB) IN
        /\ Commit(response.db)
        /\ last' = [Request("update_order_status", NoUser, order_id, NoCopy, NoPizza,
                            NoPizzaType, NoBeverage, 0, order_id, response)
                        EXCEPT !.order_status = order_status]
        /\ UNCHANGED requests

UpdateOrderStatus == UpdateOrderStatusTo(StatusInputs)

DeleteOrder ==
    \E order_id \in OrderInputs :
        LET response == delete_order(order_id, DB) IN
        /\ StockBounded(response.db)
        /\ Commit(response.db)
        /\ last' = Request("delete_order", NoUser, order_id, NoCopy, NoPizza, NoPizzaType,
                           NoBeverage, 0, order_id, response)
        /\ UNCHANGED requests

AddPizzaToOrder ==
    \E order_id \in OrderInputs, pizza_type_id \in PizzaTypeInputs :
        LET response == add_pizza_to_order(order_id, pizza_type_id, DB) IN
        /\ response.status = HTTP_200_OK => NewPizzaId(DB) # NoPizza
        /\ Commit(response.db)
        /\ last' = Request("add_pizza_to_order", NoUser, order_id, NoCopy,
                           IF response.status = HTTP_200_OK THEN NewPizzaId(DB) ELSE NoPizza,
                           pizza_type_id, NoBeverage, 0, order_id, response)
        /\ UNCHANGED requests

DeletePizzaFromOrder ==
    \E order_id \in OrderInputs, pizza_id \in PizzaInputs :
        LET response == delete_pizza_from_order(order_id, pizza_id, DB) IN
        /\ StockBounded(response.db)
        /\ Commit(response.db)
        /\ last' = Request("delete_pizza_from_order", NoUser, order_id, NoCopy, pizza_id,
                           NoPizzaType, NoBeverage, 0, order_id, response)
        /\ UNCHANGED requests

CreateOrderBeverageOf(beverage_ids) ==
    \E order_id \in OrderInputs, beverage_id \in beverage_ids, quantity \in QuantityInputs :
        LET response == create_order_beverage(order_id, beverage_id, quantity, DB) IN
        /\ Commit(response.db)
        /\ last' = Request("create_order_beverage", NoUser, order_id, NoCopy, NoPizza,
                           NoPizzaType, beverage_id, quantity, order_id, response)
        /\ UNCHANGED requests

CreateOrderBeverage == CreateOrderBeverageOf(BeverageInputs)

UpdateBeverageOfOrderOf(beverage_ids) ==
    \E order_id \in OrderInputs, beverage_id \in beverage_ids, quantity \in QuantityInputs :
        LET response == update_beverage_of_order(order_id, beverage_id, quantity, DB) IN
        /\ Commit(response.db)
        /\ last' = Request("update_beverage_of_order", NoUser, order_id, NoCopy, NoPizza,
                           NoPizzaType, beverage_id, quantity, order_id, response)
        /\ UNCHANGED requests

UpdateBeverageOfOrder == UpdateBeverageOfOrderOf(BeverageInputs)

DeleteBeverageFromOrderOf(beverage_ids) ==
    \E order_id \in OrderInputs, beverage_id \in beverage_ids :
        LET response == delete_beverage_from_order(order_id, beverage_id, DB) IN
        /\ Commit(response.db)
        /\ last' = Request("delete_beverage_from_order", NoUser, order_id, NoCopy, NoPizza,
                           NoPizzaType, beverage_id, 0, order_id, response)
        /\ UNCHANGED requests

DeleteBeverageFromOrder == DeleteBeverageFromOrderOf(BeverageInputs)

Next ==
    \/ CreateOrder
    \/ UpdateOrderStatus
    \/ DeleteOrder
    \/ AddPizzaToOrder
    \/ DeletePizzaFromOrder
    \/ CreateOrderBeverage
    \/ UpdateBeverageOfOrder
    \/ DeleteBeverageFromOrder

Spec == Init /\ [][Next]_vars

\* the pizza side of an order alone
NextPizza ==
    \/ CreatePlainOrder
    \/ DeleteOrder
    \/ AddPizzaToOrder
    \/ DeletePizzaFromOrder

SpecPizza == Init /\ [][NextPizza]_vars

\* the beverage side of an order alone
NextBeverage ==
    \/ CreatePlainOrder
    \/ DeleteOrder
    \/ CreateOrderBeverage
    \/ UpdateBeverageOfOrder
    \/ DeleteBeverageFromOrder

SpecBeverage == Init /\ [][NextBeverage]_vars

\* the beverage side with order copy
NextBeverageCopy ==
    \/ CreateOrder
    \/ DeleteOrder
    \/ CreateOrderBeverage
    \/ UpdateBeverageOfOrder
    \/ DeleteBeverageFromOrder

SpecBeverageCopy == Init /\ [][NextBeverageCopy]_vars

\* building orders, copying and deleting them
NextCopy ==
    \/ CreateOrder
    \/ DeleteOrder
    \/ AddPizzaToOrder
    \/ CreateOrderBeverage

SpecCopy == Init /\ [][NextCopy]_vars

\* building whole orders and deleting them
NextOrder ==
    \/ CreatePlainOrder
    \/ DeleteOrder
    \/ AddPizzaToOrder
    \/ CreateOrderBeverageOf({"b1"})

SpecOrder == Init /\ [][NextOrder]_vars

\* every operation on the contents of an order, one request after the other
NextSequential ==
    \/ CreateOrder
    \/ DeleteOrder
    \/ AddPizzaToOrder
    \/ DeletePizzaFromOrder
    \/ CreateOrderBeverageOf({"b1"})
    \/ UpdateBeverageOfOrderOf({"b1"})
    \/ DeleteBeverageFromOrderOf({"b1"})

SpecSequential == Init /\ [][NextSequential]_vars

\* the life of an order: created, copied, moved between statuses, deleted
NextLifecycle ==
    \/ CreateOrder
    \/ UpdateOrderStatus
    \/ DeleteOrder
    \/ CreateOrderBeverageOf({"b1"})

SpecLifecycle == Init /\ [][NextLifecycle]_vars

\* ------------------------------------------- the stock ledger called alone
\* the ledger functions take any integer counters the tables may hold
InitStock ==
    /\ orders = EmptyTable
    /\ pizzas = EmptyTable
    /\ order_beverages = EmptyTable
    /\ pizza_types = InitialPizzaTypes
    /\ dough_stock \in [Doughs -> -1..MaxStock]
    /\ topping_stock \in [Toppings -> -1..MaxStock]
    /\ beverage_stock \in [Beverages -> 0..MaxStock]
    /\ catalog = InitialCatalog
    /\ last = Call("none", NoPizzaType, NoBeverage, 0, TRUE)
    /\ requests = [c \in Clients |-> Idle]

IngredientsAreAvailable ==
    \E pizza_type_id \in PizzaTypeIds :
        /\ last' = Call("ingredients_are_available", pizza_type_id, NoBeverage, 0,
                        ingredients_are_available(pizza_type_id, DB))
        /\ UNCHANGED <<orders, pizzas, order_beverages, pizza_types, catalog, stock_vars, requests>>

BeverageIsAvailable ==
    \E beverage_id \in Beverages, quantity \in QuantityInputs :
        /\ last' = Call("beverage_is_available", NoPizzaType, beverage_id, quantity,
                        beverage_is_available(beverage_id, quantity, DB))
        /\ UNCHANGED <<orders, pizzas, order_beverages, pizza_types, catalog, stock_vars, requests>>

ChangeStockOfBeverage ==
    \E beverage_id \in Beverages, delta \in (-MaxStock)..MaxStock :
        LET changed == change_stock_of_beverage(beverage_id, delta, DB) IN
        /\ StockBounded(changed.db)
        /\ Commit(changed.db)
        /\ last' = Call("change_stock_of_beverage", NoPizzaType, beverage_id, delta, changed.ok)
        /\ UNCHANGED requests

NextStock ==
    \/ IngredientsAreAvailable
    \/ BeverageIsAvailable
    \/ ChangeStockOfBeverage

SpecStock == InitStock /\ [][NextStock]_vars

\* ------------------------------------------- requests of several clients
\* Every client runs one request at a time, each in a session of its own; a
\* request arrives with its first database read and then takes one step per
\* database access, between which the steps of the other client may run.

\* a request in flight: its arguments, the step it takes next and what its
\* session has loaded
InFlight(op, pc, order_id, copy_order_id, pizza_type_id, beverage_id, quantity, session) ==
    [op |-> op, pc |-> pc, order_id |-> order_id, copy_order_id |-> copy_order_id,
     pizza_type_id |-> pizza_type_id, beverage_id |-> beverage_id,
     quantity |-> quantity, session |-> session]

\* the HTTP outcome of a request
Answer(request, status) ==
    [op |-> request.op, user_id |-> NoUser, order_id |-> request.order_id,
     copy_order_id |-> request.copy_order_id, pizza_id |-> NoPizza,
     pizza_type_id |-> request.pizza_type_id, beverage_id |-> request.beverage_id,
     quantity |-> request.quantity, n_pizzas |-> 0, n_beverages |-> 0,
     was_status |-> NoStatus, order_status |-> NoStatus,
     statuses |-> {}, result |-> {}, price |-> 0,
     kind |-> NoKind, item_id |-> NoItem, schema |-> NoSchema, status |-> status]

\* the request of client c is refused on arrival, goes on to its next step, or
\* ends
Refuse(request, status) == requests' = requests /\ last' = Answer(request, status)
Accept(c, request) == requests' = [requests EXCEPT ![c] = request] /\ last' = last
Goto(c, pc, session) ==
    /\ requests' = [requests EXCEPT ![c] = [@ EXCEPT !.pc = pc, !.session = session]]
    /\ last' = last
Finish(c, status) ==
    /\ requests' = [requests EXCEPT ![c] = Idle]
    /\ last' = Answer(requests[c], status)

\* an OrderBeverageQuantity row needs its order and is the only one of its
\* order and beverage
line_can_be_stored(order_id, beverage_id, db) ==
    get_order_by_id(order_id, db) /\ ~get_beverage_quantity_by_id(order_id, beverage_id, db)

\* the rows of order.beverages as a session loads them
LoadedLines(order_id, db) ==
    {[i \in 1..Len(rows) |-> <<rows[i][2], db.order_beverages[rows[i]]>>] :
        rows \in Orderings(BeveragesOf(order_id, db))}

\* --- router.create_order_beverage, step by step
\* lines 266-283: the order, the quantity, the beverage, an existing line
ReceiveCreateOrderBeverage(c, order_ids, beverage_ids) ==
    /\ requests[c] = Idle
    /\ \E order_id \in order_ids, beverage_id \in beverage_ids, quantity \in QuantityInputs :
        LET request == InFlight("create_order_beverage", "line_check", order_id, NoCopy,
                                NoPizzaType, beverage_id, quantity, <<>>)
        IN IF ~get_order_by_id(order_id, DB) THEN Refuse(request, HTTP_404_NOT_FOUND)
           ELSE IF quantity <= 0 THEN Refuse(request, HTTP_422_UNPROCESSABLE_ENTITY)
           ELSE IF beverage_id \notin Beverages THEN Refuse(request, HTTP_404_NOT_FOUND)
           ELSE IF get_beverage_quantity_by_id(order_id, beverage_id, DB)
           THEN Refuse(request, HTTP_303_SEE_OTHER)
           ELSE Accept(c, request)
    /\ UNCHANGED <<orders, pizzas, order_beverages, pizza_types, catalog, stock_vars>>

\* lines 285-287: beverage_is_available
LineCheck(c) ==
    /\ requests[c].pc = "line_check"
    /\ IF beverage_is_available(requests[c].beverage_id, requests[c].quantity, DB)
       THEN Goto(c, "line_change", <<>>)
       ELSE Finish(c, HTTP_409_CONFLICT)
    /\ UNCHANGED <<orders, pizzas, order_beverages, pizza_types, catalog, stock_vars>>

\* line 289: change_stock_of_beverage, whose result is not looked at
LineChange(c) ==
    /\ requests[c].pc = "line_change"
    /\ Commit(change_stock_of_beverage(requests[c].beverage_id, -requests[c].quantity, DB).db)
    /\ Goto(c, "line_create", <<>>)

\* lines 290-292: order_crud.create_beverage_quantity
LineCreate(c) ==
    /\ requests[c].pc = "line_create"
    /\ IF line_can_be_stored(requests[c].order_id, requests[c].beverage_id, DB)
       THEN /\ Commit(order_crud_create_beverage_quantity(requests[c].order_id,
                        requests[c].beverage_id, requests[c].quantity, DB))
            /\ Finish(c, HTTP_201_CREATED)
       ELSE /\ Commit(DB)
            /\ Finish(c, HTTP_500_INTERNAL_SERVER_ERROR)

\* --- router.update_beverage_of_order, step by step
\* lines 299-315: the order, the quantity, the line and its old quantity
ReceiveUpdateBeverageOfOrder(c, beverage_ids) ==
    /\ requests[c] = Idle
    /\ \E order_id \in OrderInputs, beverage_id \in beverage_ids, quantity \in QuantityInputs :
        LET request == InFlight("update_beverage_of_order", "update_change", order_id, NoCopy,
                                NoPizzaType, beverage_id, quantity, <<>>)
        IN IF ~get_order_by_id(order_id, DB) THEN Refuse(request, HTTP_404_NOT_FOUND)
           ELSE IF quantity <= 0 THEN Refuse(request, HTTP_422_UNPROCESSABLE_ENTITY)
           ELSE IF ~get_beverage_quantity_by_id(order_id, beverage_id, DB)
           THEN Refuse(request, HTTP_404_NOT_FOUND)
           ELSE Accept(c, [request EXCEPT
                    !.session = <<order_beverages[<<order_id, beverage_id>>]>>])
    /\ UNCHANGED <<orders, pizzas, order_beverages, pizza_types, catalog, stock_vars>>

\* lines 317-319: change_stock_of_beverage(old_quantity - new_quantity)
UpdateChange(c) ==
    /\ requests[c].pc = "update_change"
    /\ LET changed == change_stock_of_beverage(requests[c].beverage_id,
                        requests[c].session[1] - requests[c].quantity, DB)
       IN /\ StockBounded(changed.db)
          /\ Commit(changed.db)
          /\ IF changed.ok THEN Goto(c, "update_line", <<>>)
                           ELSE Finish(c, HTTP_409_CONFLICT)

\* lines 321-323: order_crud.update_beverage_quantity_of_order; it returns
\* None, which is no response of the endpoint, when the line is gone
UpdateLine(c) ==
    /\ requests[c].pc = "update_line"
    /\ Commit(order_crud_update_beverage_quantity_of_order(requests[c].order_id,
                requests[c].beverage_id, requests[c].quantity, DB))
    /\ IF get_beverage_quantity_by_id(requests[c].order_id, requests[c].beverage_id, DB)
       THEN Finish(c, HTTP_200_OK)
       ELSE Finish(c, HTTP_500_INTERNAL_SERVER_ERROR)

\* --- router.delete_beverage_from_order, step by step
\* lines 329-337: the order, the line and its quantity
ReceiveDeleteBeverageFromOrder(c, beverage_ids) ==
    /\ requests[c] = Idle
    /\ \E order_id \in OrderInputs, beverage_id \in beverage_ids :
        LET request == InFlight("delete_beverage_from_order", "remove_change", order_id,
                                NoCopy, NoPizzaType, beverage_id, 0, <<>>)
        IN IF ~get_order_by_id(order_id, DB) THEN Refuse(request, HTTP_404_NOT_FOUND)
           ELSE IF ~get_beverage_quantity_by_id(order_id, beverage_id, DB)
           THEN Refuse(request, HTTP_404_NOT_FOUND)
           ELSE Accept(c, [request EXCEPT
                    !.session = <<order_beverages[<<order_id, beverage_id>>]>>])
    /\ UNCHANGED <<orders, pizzas, order_beverages, pizza_types, catalog, stock_vars>>

\* line 339: change_stock_of_beverage(+quantity)
RemoveChange(c) ==
    /\ requests[c].pc = "remove_change"
    /\ LET changed == change_stock_of_beverage(requests[c].beverage_id,
                                               requests[c].session[1], DB)
       IN /\ StockBounded(changed.db)
          /\ Commit(changed.db)
    /\ Goto(c, "remove_line", <<>>)

\* lines 340-342: order_crud.delete_beverage_from_order
RemoveLine(c) ==
    /\ requests[c].pc = "remove_line"
    /\ Commit(order_crud_delete_beverage_from_order(requests[c].order_id,
                                                    requests[c].beverage_id, DB))
    /\ Finish(c, HTTP_204_NO_CONTENT)

\* --- router.delete_order, step by step
\* lines 162-165: the order
ReceiveDeleteOrder(c) ==
    /\ requests[c] = Idle
    /\ \E order_id \in OrderInputs :
        LET request == InFlight("delete_order", "delete_load", order_id, NoCopy,
                                NoPizzaType, NoBeverage, 0, <<>>)
        IN IF ~get_order_by_id(order_id, DB) THEN Refuse(request, HTTP_404_NOT_FOUND)
           ELSE Accept(c, request)
    /\ UNCHANGED <<orders, pizzas, order_beverages, pizza_types, catalog, stock_vars>>

\* lines 168-171: the loop over order.pizzas, taken as one step, and the load
\* of order.beverages
DeleteLoad(c) ==
    /\ requests[c].pc = "delete_load"
    /\ LET restored == restore_pizzas(PizzasOf(requests[c].order_id, DB), DB) IN
       /\ StockBounded(restored)
       /\ Commit(restored)
    /\ \E rows \in LoadedLines(requests[c].order_id, DB) : Goto(c, "delete_restore", rows)

\* line 172: change_stock_of_beverage(+quantity) for the next loaded line
DeleteRestore(c) ==
    /\ requests[c].pc = "delete_restore"
    /\ requests[c].session # <<>>
    /\ LET row == Head(requests[c].session)
           changed == change_stock_of_beverage(row[1], row[2], DB)
       IN /\ StockBounded(changed.db)
          /\ Commit(changed.db)
    /\ Goto(c, "delete_restore", Tail(requests[c].session))

\* lines 174-176: order_crud.delete_order_by_id
DeleteOrderRow(c) ==
    /\ requests[c].pc = "delete_restore"
    /\ requests[c].session = <<>>
    /\ Commit(order_crud_delete_order_by_id(requests[c].order_id, DB))
    /\ Finish(c, HTTP_204_NO_CONTENT)

\* --- router.create_order from a template, step by step
\* lines 107-112: the user, order_crud.create_order
ReceiveCreateOrderCopy(c) ==
    /\ requests[c] = Idle
    /\ \E user_id \in UserInputs, copy_order_id \in (DOMAIN orders) \cup {NoOrder} :
        LET request == InFlight("create_order", "copy_lookup", NewOrderId(DB), copy_order_id,
                                NoPizzaType, NoBeverage, 0, <<>>)
        IN IF ~get_user_by_id(user_id, DB)
           THEN /\ Refuse([request EXCEPT !.order_id = NoOrder], HTTP_404_NOT_FOUND)
                /\ Commit(DB)
           ELSE /\ NewOrderId(DB) # NoOrder
                /\ Commit(order_crud_create_order(user_id, DB))
                /\ Accept(c, request)

\* lines 118-133: the template, the loop over copy_order.pizzas, taken as one
\* step, and the load of copy_order.beverages
CopyLookup(c) ==
    /\ requests[c].pc = "copy_lookup"
    /\ IF ~get_order_by_id(requests[c].copy_order_id, DB)
       THEN /\ Commit(order_crud_delete_order_by_id(requests[c].order_id, DB))
            /\ Finish(c, HTTP_404_NOT_FOUND)
       ELSE \E pizza_rows \in Orderings(PizzasOf(requests[c].copy_order_id, DB)) :
            LET copied == copy_pizzas(pizza_rows, 1, requests[c].order_id, DB) IN
            /\ Commit(copied.db)
            /\ IF ~copied.ok THEN Finish(c, HTTP_409_CONFLICT)
               ELSE \E rows \in LoadedLines(requests[c].copy_order_id, DB) :
                        Goto(c, "copy_change", rows)

\* lines 136-140: change_stock_of_beverage(-quantity) for the next loaded line
CopyChange(c) ==
    /\ requests[c].pc = "copy_change"
    /\ requests[c].session # <<>>
    /\ LET row == Head(requests[c].session)
           changed == change_stock_of_beverage(row[1], -row[2], DB)
       IN IF changed.ok
          THEN /\ Commit(changed.db)
               /\ Goto(c, "copy_create", requests[c].session)
          ELSE /\ Commit(order_crud_delete_order_by_id(requests[c].order_id, changed.db))
               /\ Finish(c, HTTP_409_CONFLICT)

\* line 141: order_crud.create_beverage_quantity for the new order
CopyCreate(c) ==
    /\ requests[c].pc = "copy_create"
    /\ LET row == Head(requests[c].session) IN
       IF line_can_be_stored(requests[c].order_id, row[1], DB)
       THEN /\ Commit(order_crud_create_beverage_quantity(requests[c].order_id,
                        row[1], row[2], DB))
            /\ Goto(c, "copy_change", Tail(requests[c].session))
       ELSE /\ Commit(DB)
            /\ Finish(c, HTTP_500_INTERNAL_SERVER_ERROR)

\* lines 143-144: every line is copied
CopyDone(c) ==
    /\ requests[c].pc = "copy_change"
    /\ requests[c].session = <<>>
    /\ Commit(DB)
    /\ Finish(c, HTTP_201_CREATED)

\* --- router.add_pizza_to_order, step by step
\* what ingredients_are_available leaves loaded in the session of the request:
\* the stock of the dough and of the toppings of the pizza type
LoadedStock(pizza_type_id, db) ==
    LET pizza_type == db.pizza_types[pizza_type_id] IN
    [dough |-> db.dough_stock[pizza_type.dough],
     toppings |-> [t \in DOMAIN pizza_type.toppings |-> db.topping_stock[t]]]

\* mutant: the decrement is applied to the stock the database holds
reduce_stock_of_ingredients_in_database(pizza_type_id, session, db) ==
    reduce_stock_of_ingredients(pizza_type_id, db)

\* stock_ingredients_crud.reduce_stock_of_ingredients on the objects loaded by
\* ingredients_are_available: `stock -= n` takes the loaded value and the
\* commit writes the result to the row
reduce_stock_of_ingredients_in_session(pizza_type_id, session, db) ==
    LET pizza_type == db.pizza_types[pizza_type_id] IN
    [db EXCEPT
        !.dough_stock[pizza_type.dough] = session.dough - 1,
        !.topping_stock = [t \in DOMAIN @ |->
            IF t \in DOMAIN pizza_type.toppings
            THEN session.toppings[t] - pizza_type.toppings[t] ELSE @[t]]]

\* pizzas the requests in flight are about to store
PizzasInFlight ==
    Cardinality({c \in Clients : requests[c].pc \in {"pizza_check", "pizza_reduce", "pizza_add"}})

\* lines 182-190: the order and the pizza type
ReceiveAddPizzaToOrder(c) ==
    /\ requests[c] = Idle
    /\ Cardinality(DOMAIN pizzas) + PizzasInFlight < MaxPizzas
    /\ \E order_id \in OrderInputs, pizza_type_id \in PizzaTypeInputs :
        LET request == InFlight("add_pizza_to_order", "pizza_check", order_id, NoCopy,
                                pizza_type_id, NoBeverage, 0, <<>>)
        IN IF ~get_order_by_id(order_id, DB) THEN Refuse(request, HTTP_404_NOT_FOUND)
           ELSE IF pizza_type_id \notin DOMAIN pizza_types
           THEN Refuse(request, HTTP_404_NOT_FOUND)
           ELSE Accept(c, request)
    /\ UNCHANGED <<orders, pizzas, order_beverages, pizza_types, catalog, stock_vars>>

\* lines 192-194: ingredients_are_available
PizzaCheck(c) ==
    /\ requests[c].pc = "pizza_check"
    /\ IF ingredients_are_available(requests[c].pizza_type_id, DB)
       THEN Goto(c, "pizza_reduce", LoadedStock(requests[c].pizza_type_id, DB))
       ELSE Finish(c, HTTP_409_CONFLICT)
    /\ UNCHANGED <<orders, pizzas, order_beverages, pizza_types, catalog, stock_vars>>

\* line 196: reduce_stock_of_ingredients
PizzaReduce(c) ==
    /\ requests[c].pc = "pizza_reduce"
    /\ Commit(reduce_stock_of_ingredients_in_session(requests[c].pizza_type_id,
                                                     requests[c].session, DB))
    /\ Goto(c, "pizza_add", requests[c].session)

\* lines 197-199: order_crud.add_pizza_to_order
PizzaAdd(c) ==
    /\ requests[c].pc = "pizza_add"
    /\ Commit(order_crud_add_pizza_to_order(requests[c].order_id,
                                            requests[c].pizza_type_id, DB))
    /\ Finish(c, HTTP_200_OK)

\* each client adds beverage lines to an order of its own
OrdersServedBy(c) == IF c = "c1" THEN {1, NoOrder} ELSE {2, NoOrder}

\* two clients adding lines of one beverage, each to its own order
NextConcurrentAdd ==
    \/ CreatePlainOrder
    \/ \E c \in Clients : ReceiveCreateOrderBeverage(c, OrdersServedBy(c), {"b1"})
    \/ \E c \in Clients : LineCheck(c)
    \/ \E c \in Clients : LineChange(c)
    \/ \E c \in Clients : LineCreate(c)

SpecConcurrentAdd == Init /\ [][NextConcurrentAdd]_vars

\* two clients working on the lines of one beverage
NextConcurrentBeverage ==
    \/ CreatePlainOrder
    \/ \E c \in Clients : ReceiveCreateOrderBeverage(c, OrderInputs, {"b1"})
    \/ \E c \in Clients : LineCheck(c)
    \/ \E c \in Clients : LineChange(c)
    \/ \E c \in Clients : LineCreate(c)
    \/ \E c \in Clients : ReceiveUpdateBeverageOfOrder(c, {"b1"})
    \/ \E c \in Clients : UpdateChange(c)
    \/ \E c \in Clients : UpdateLine(c)
    \/ \E c \in Clients : ReceiveDeleteBeverageFromOrder(c, {"b1"})
    \/ \E c \in Clients : RemoveChange(c)
    \/ \E c \in Clients : RemoveLine(c)
    \/ \E c \in Clients : ReceiveDeleteOrder(c)
    \/ \E c \in Clients : DeleteLoad(c)
    \/ \E c \in Clients : DeleteRestore(c)
    \/ \E c \in Clients : DeleteOrderRow(c)
    \/ \E c \in Clients : ReceiveCreateOrderCopy(c)
    \/ \E c \in Clients : CopyLookup(c)
    \/ \E c \in Clients : CopyChange(c)
    \/ \E c \in Clients : CopyCreate(c)
    \/ \E c \in Clients : CopyDone(c)

SpecConcurrentBeverage == Init /\ [][NextConcurrentBeverage]_vars

\* two clients adding pizzas
NextConcurrentPizza ==
    \/ CreatePlainOrder
    \/ \E c \in Clients : ReceiveAddPizzaToOrder(c)
    \/ \E c \in Clients : PizzaCheck(c)
    \/ \E c \in Clients : PizzaReduce(c)
    \/ \E c \in Clients : PizzaAdd(c)

SpecConcurrentPizza == Init /\ [][NextConcurrentPizza]_vars

\* the contents of orders edited while the orders are being completed
NextStatusEdit ==
    \/ CreatePlainOrder
    \/ UpdateOrderStatusTo({"COMPLETED"})
    \/ AddPizzaToOrder
    \/ DeletePizzaFromOrder
    \/ CreateOrderBeverageOf({"b1"})
    \/ UpdateBeverageOfOrderOf({"b1"})
    \/ DeleteBeverageFromOrderOf({"b1"})

SpecStatusEdit == Init /\ [][NextStatusEdit]_vars

\* ------------------------------------------------------------ order queries
\* mutant: the filter is applied to an empty list of statuses too
order_crud_get_orders_by_statuses_always_filtered(statuses, db) ==
    {o \in DOMAIN db.orders : db.orders[o].order_status \in statuses}

\* crud.get_orders_by_statuses; statuses is None ({}) or a list of OrderStatus
order_crud_get_orders_by_statuses(statuses, db) ==
    IF statuses # {}
    THEN {o \in DOMAIN db.orders : db.orders[o].order_status \in statuses}
    ELSE DOMAIN db.orders

\* the answer of a query: its HTTP outcome, the database it leaves, its rows
Rows(status, db, result) == [status |-> status, db |-> db, result |-> result]

\* router.get_orders_by_status
get_orders_by_status(statuses, db) ==
    IF statuses # {} /\ \E token \in statuses : upper(token) \notin OrderStatus
    THEN Rows(HTTP_400_BAD_REQUEST, db, {})
    ELSE Rows(HTTP_200_OK, db,
              order_crud_get_orders_by_statuses({upper(token) : token \in statuses}, db))

\* mutant: a pizza type is priced once however many pizzas of it are ordered
order_crud_get_price_of_order_per_type(order_id, db) ==
    LET lines == BeveragesOf(order_id, db)
        types == {db.pizzas[p].pizza_type_id : p \in PizzasOf(order_id, db)}
    IN SumOver(lines, [k \in lines |->
                    db.catalog["beverage"][k[2]].price * db.order_beverages[k]])
       + SumOver(types, [pt \in types |-> db.catalog["pizza_type"][pt].price])

\* crud.get_price_of_order; prices are amounts in whole units
order_crud_get_price_of_order(order_id, db) ==
    LET lines == BeveragesOf(order_id, db)
        price_beverage ==
            SumOver(lines, [k \in lines |->
                db.catalog["beverage"][k[2]].price * db.order_beverages[k]])
        rows == PizzasOf(order_id, db)
        \* func.sum over no rows is None
        price_pizza ==
            SumOver(rows, [p \in rows |->
                db.catalog["pizza_type"][db.pizzas[p].pizza_type_id].price])
    IN IF rows # {} /\ price_pizza # 0 THEN price_beverage + price_pizza
       ELSE price_beverage

\* the answer of the price query
Priced(status, db, price) == [status |-> status, db |-> db, price |-> price]

\* mutant: pricing an order closes it
get_price_of_order_closing(order_id, db) ==
    IF ~get_order_by_id(order_id, db) THEN Priced(HTTP_404_NOT_FOUND, db, 0)
    ELSE Priced(HTTP_200_OK,
                [db EXCEPT !.orders[order_id].order_status = COMPLETED],
                order_crud_get_price_of_order(order_id, db))

\* router.get_price_of_order
get_price_of_order(order_id, db) ==
    IF ~get_order_by_id(order_id, db) THEN Priced(HTTP_404_NOT_FOUND, db, 0)
    ELSE Priced(HTTP_200_OK, db, order_crud_get_price_of_order(order_id, db))

\* user/crud.get_order_history_of_user
get_order_history_of_user(user_id, db) ==
    {o \in DOMAIN db.orders :
        db.orders[o].user_id = user_id /\ db.orders[o].order_status = COMPLETED}

\* mutant: the open orders of every user
get_open_orders_of_user_of_anyone(user_id, db) ==
    {o \in DOMAIN db.orders : db.orders[o].order_status # COMPLETED}

\* user/crud.get_open_orders_of_user
get_open_orders_of_user(user_id, db) ==
    {o \in DOMAIN db.orders :
        db.orders[o].user_id = user_id /\ db.orders[o].order_status # COMPLETED}

GetOrdersByStatus ==
    \E statuses \in SUBSET StatusInputs :
        LET response == get_orders_by_status(statuses, DB) IN
        /\ Commit(response.db)
        /\ last' = [Request("get_orders_by_status", NoUser, NoOrder, NoCopy, NoPizza,
                            NoPizzaType, NoBeverage, 0, NoOrder, response)
                        EXCEPT !.statuses = statuses, !.result = response.result]
        /\ UNCHANGED requests

GetPriceOfOrder ==
    \E order_id \in OrderInputs :
        LET response == get_price_of_order(order_id, DB) IN
        /\ Commit(response.db)
        /\ last' = [Request("get_price_of_order", NoUser, order_id, NoCopy, NoPizza,
                            NoPizzaType, NoBeverage, 0, order_id, response)
                        EXCEPT !.price = response.price]
        /\ UNCHANGED requests

GetOrderHistoryOfUser ==
    \E user_id \in AnyUserInputs :
        /\ last' = [Call("get_order_history_of_user", NoPizzaType, NoBeverage, 0, TRUE)
                        EXCEPT !.user_id = user_id,
                               !.result = get_order_history_of_user(user_id, DB)]
        /\ UNCHANGED <<orders, pizzas, order_beverages, pizza_types, catalog, stock_vars, requests>>

GetOpenOrdersOfUser ==
    \E user_id \in AnyUserInputs :
        /\ last' = [Call("get_open_orders_of_user", NoPizzaType, NoBeverage, 0, TRUE)
                        EXCEPT !.user_id = user_id,
                               !.result = get_open_orders_of_user(user_id, DB)]
        /\ UNCHANGED <<orders, pizzas, order_beverages, pizza_types, catalog, stock_vars, requests>>

\* the orders of two users moving between statuses, and the queries on them
NextQuery ==
    \/ CreateOrderBy(AnyUserInputs, {NoCopy})
    \/ UpdateOrderStatus
    \/ DeleteOrder
    \/ GetOrdersByStatus
    \/ GetOrderHistoryOfUser
    \/ GetOpenOrdersOfUser

SpecQuery == Init /\ [][NextQuery]_vars

\* catalogs whose first beverage and first pizza type cost any price up to
\* MaxPrice, next to rows of price 1
PricedCatalogs ==
    {[InitialCatalog EXCEPT !["beverage"]["b1"].price = beverage_price,
                            !["pizza_type"]["pt1"].price = pizza_price] :
     beverage_price \in 1..MaxPrice, pizza_price \in 1..MaxPrice}

InitPriced ==
    /\ orders = EmptyTable
    /\ pizzas = EmptyTable
    /\ order_beverages = EmptyTable
    /\ pizza_types = InitialPizzaTypes
    /\ dough_stock = InitialDoughStock
    /\ topping_stock = InitialToppingStock
    /\ beverage_stock = InitialBeverageStock
    /\ catalog \in PricedCatalogs
    /\ last = Call("none", NoPizzaType, NoBeverage, 0, TRUE)
    /\ requests = [c \in Clients |-> Idle]

\* orders being composed and priced
NextPrice ==
    \/ CreatePlainOrder
    \/ AddPizzaToOrder
    \/ CreateOrderBeverage
    \/ GetPriceOfOrder

SpecPrice == InitPriced /\ [][NextPrice]_vars

\* ------------------------------------------------------------- the catalog
\* ids a run may give to the rows it creates, and the names it may ask for
NewRows(kind) ==
    CASE kind = "dough" -> {"d3"}
      [] kind = "topping" -> {"t3"}
      [] kind = "beverage" -> {"b3"}
      [] kind = "pizza_type" -> {"pt3"}
NewItemId(kind, db) ==
    LET free == NewRows(kind) \ DOMAIN db.catalog[kind] IN
    IF free = {} THEN NoItem ELSE CHOOSE id \in free : TRUE
NameInputs(kind) == InitialRows(kind) \cup {"n3"}

\* get_dough_by_id, get_topping_by_id, get_beverage_by_id, get_pizza_type_by_id
get_by_id(kind, id, db) == id \in DOMAIN db.catalog[kind]

\* get_*_by_name: the rows of the kind with the name
get_by_name(kind, name, db) ==
    {id \in DOMAIN db.catalog[kind] : db.catalog[kind][id].name = name}

\* the columns of a row outside the table of names and prices
with_fields(kind, id, schema, db) ==
    CASE kind = "dough" -> [db EXCEPT !.dough_stock = Put(@, id, schema.stock)]
      [] kind = "topping" -> [db EXCEPT !.topping_stock = Put(@, id, schema.stock)]
      [] kind = "beverage" -> [db EXCEPT !.beverage_stock = Put(@, id, schema.stock)]
      [] kind = "pizza_type" ->
            [db EXCEPT !.pizza_types =
                Put(@, id, [dough |-> schema.dough_id,
                            toppings |-> IF id \in DOMAIN @ THEN @[id].toppings
                                                            ELSE EmptyTable])]

\* crud.create_dough, create_topping, create_beverage, create_pizza_type: a
\* new row with every field of the schema
crud_create(kind, schema, db) ==
    LET id == NewItemId(kind, db) IN
    with_fields(kind, id, schema,
        [db EXCEPT !.catalog[kind] = Put(@, id, [name |-> schema.name, price |-> schema.price])])

\* crud.update_dough, update_topping, update_beverage, update_pizza_type:
\* setattr of every field of the schema on the row
crud_update(kind, id, schema, db) ==
    with_fields(kind, id, schema,
        [db EXCEPT !.catalog[kind][id] = [name |-> schema.name, price |-> schema.price]])

\* mutant: a create under a stored name overwrites the stored row
create_item_overwriting(kind, schema, db) ==
    IF get_by_name(kind, schema.name, db) # {}
    THEN Rows(HTTP_303_SEE_OTHER,
              crud_update(kind, CHOOSE id \in get_by_name(kind, schema.name, db) : TRUE,
                          schema, db),
              get_by_name(kind, schema.name, db))
    ELSE IF kind = "pizza_type" /\ ~get_by_id("dough", schema.dough_id, db)
    THEN Rows(HTTP_404_NOT_FOUND, db, {})
    ELSE Rows(HTTP_201_CREATED, crud_create(kind, schema, db), {NewItemId(kind, db)})

\* router.create_dough, create_topping, create_beverage, create_pizza_type:
\* a redirect to the row of that name, or the new row
create_item(kind, schema, db) ==
    IF get_by_name(kind, schema.name, db) # {}
    THEN Rows(HTTP_303_SEE_OTHER, db, get_by_name(kind, schema.name, db))
    ELSE IF kind = "pizza_type" /\ ~get_by_id("dough", schema.dough_id, db)
    THEN Rows(HTTP_404_NOT_FOUND, db, {})
    ELSE Rows(HTTP_201_CREATED, crud_create(kind, schema, db), {NewItemId(kind, db)})

\* mutant: an update to an unused name renames the row
update_item_renaming(kind, id, schema, db) ==
    IF ~get_by_id(kind, id, db) THEN Rows(HTTP_404_NOT_FOUND, db, {})
    ELSE IF db.catalog[kind][id].name = schema.name
    THEN Rows(HTTP_204_NO_CONTENT, crud_update(kind, id, schema, db), {id})
    ELSE IF get_by_name(kind, schema.name, db) # {}
    THEN Rows(HTTP_303_SEE_OTHER, db, get_by_name(kind, schema.name, db))
    ELSE Rows(HTTP_201_CREATED, crud_update(kind, id, schema, db), {id})

\* router.update_dough, update_topping, update_beverage, update_pizza_type
update_item(kind, id, schema, db) ==
    IF ~get_by_id(kind, id, db) THEN Rows(HTTP_404_NOT_FOUND, db, {})
    ELSE IF db.catalog[kind][id].name = schema.name
    THEN Rows(HTTP_204_NO_CONTENT, crud_update(kind, id, schema, db), {id})
    ELSE IF get_by_name(kind, schema.name, db) # {}
    THEN Rows(HTTP_303_SEE_OTHER, db, get_by_name(kind, schema.name, db))
    ELSE Rows(HTTP_201_CREATED, crud_create(kind, schema, db), {NewItemId(kind, db)})

\* pizza_type/crud.get_topping_quantity_by_id
get_topping_quantity_by_id(pizza_type_id, topping_id, db) ==
    topping_id \in DOMAIN db.pizza_types[pizza_type_id].toppings

\* pizza_type/crud.create_topping_quantity
create_topping_quantity(pizza_type_id, topping_id, quantity, db) ==
    [db EXCEPT !.pizza_types[pizza_type_id].toppings = Put(@, topping_id, quantity)]

\* pizza_type/router.create_pizza_type_topping
create_pizza_type_topping(pizza_type_id, topping_id, quantity, db) ==
    IF ~get_by_id("pizza_type", pizza_type_id, db) THEN Response(HTTP_404_NOT_FOUND, db)
    ELSE IF ~get_by_id("topping", topping_id, db) THEN Response(HTTP_404_NOT_FOUND, db)
    ELSE IF get_topping_quantity_by_id(pizza_type_id, topping_id, db)
    THEN Response(HTTP_303_SEE_OTHER, db)
    ELSE Response(HTTP_201_CREATED,
                  create_topping_quantity(pizza_type_id, topping_id, quantity, db))

\* the bodies of the catalog requests: a name, the price MaxPrice, and the
\* stock (0 or 1) of a dough, topping or beverage or the dough of a pizza type
SchemaInputs(kind, names, doughs) ==
    {[name |-> name, price |-> MaxPrice,
      stock |-> stock, dough_id |-> dough_id] :
        name \in names,
        stock \in IF kind = "pizza_type" THEN {0} ELSE 0..1,
        dough_id \in IF kind = "pizza_type" THEN doughs ELSE {NoItem}}
ItemInputs(kind) == (DOMAIN catalog[kind]) \cup {NoItem}

CatalogRequest(op, kind, id, schema, response) ==
    [Request(op, NoUser, NoOrder, NoCopy, NoPizza, NoPizzaType, NoBeverage, 0,
             NoOrder, response)
        EXCEPT !.kind = kind, !.item_id = id, !.schema = schema,
               !.result = response.result]

CreateItemOf(kinds) ==
    \E kind \in kinds :
        \E schema \in SchemaInputs(kind, NameInputs(kind),
                                   (DOMAIN catalog["dough"]) \cup {NoItem}) :
            LET response == create_item(kind, schema, DB) IN
            /\ response.status = HTTP_201_CREATED => NewItemId(kind, DB) # NoItem
            /\ Commit(response.db)
            /\ last' = CatalogRequest("create_item", kind, NoItem, schema, response)
            /\ UNCHANGED requests

UpdateItemOf(kinds, names) ==
    \E kind \in kinds :
        \E id \in ItemInputs(kind),
           schema \in SchemaInputs(kind, names, DOMAIN catalog["dough"]) :
            LET response == update_item(kind, id, schema, DB) IN
            /\ response.status = HTTP_201_CREATED => NewItemId(kind, DB) # NoItem
            /\ Commit(response.db)
            /\ last' = CatalogRequest("update_item", kind, id, schema, response)
            /\ UNCHANGED requests

CreatePizzaTypeToppingOf(quantities) ==
    \E pizza_type_id \in ItemInputs("pizza_type"), topping_id \in ItemInputs("topping"),
       quantity \in quantities :
        LET response == create_pizza_type_topping(pizza_type_id, topping_id, quantity, DB) IN
        /\ Commit(response.db)
        /\ last' = [Request("create_pizza_type_topping", NoUser, NoOrder, NoCopy, NoPizza,
                            pizza_type_id, NoBeverage, quantity, NoOrder, response)
                        EXCEPT !.kind = "topping", !.item_id = topping_id]
        /\ UNCHANGED requests

\* the catalog endpoints alone; a run works on the table of one kind, the
\* tables sharing no column but the dough a pizza type refers to
NextCatalog ==
    \E kind \in Kinds :
        /\ last.kind \in {NoKind, kind}
        /\ \/ CreateItemOf({kind})
           \/ UpdateItemOf({kind}, NameInputs(kind))

SpecCatalog == Init /\ [][NextCatalog]_vars

\* a pizza is removed through the order that holds it
DeleteOwnPizza ==
    \E pizza_id \in DOMAIN pizzas :
        LET order_id == pizzas[pizza_id].order_id
            response == delete_pizza_from_order(order_id, pizza_id, DB)
        IN /\ StockBounded(response.db)
           /\ Commit(response.db)
           /\ last' = Request("delete_pizza_from_order", NoUser, order_id, NoCopy, pizza_id,
                              NoPizzaType, NoBeverage, 0, order_id, response)
           /\ UNCHANGED requests

\* pizzas added and removed while the recipes of the pizza types are edited
NextRecipe ==
    \/ CreatePlainOrder
    \/ DeleteOrder
    \/ AddPizzaToOrder
    \/ DeleteOwnPizza
    \/ CreatePizzaTypeToppingOf({1})
    \/ UpdateItemOf({"pizza_type"}, PizzaTypeIds)

SpecRecipe == Init /\ [][NextRecipe]_vars

\* ================================================================ claims
\* quantities the claims speak about
LineQuantity(b) ==
    SumOver({k \in DOMAIN order_beverages : k[2] = b}, order_beverages)

DoughUse(pizza_rows, order_id, d) ==
    Cardinality({p \in DOMAIN pizza_rows :
        /\ pizza_rows[p].order_id = order_id
        /\ pizza_types[pizza_rows[p].pizza_type_id].dough = d})

ToppingUse(pizza_rows, order_id, t) ==
    LET using == {p \in DOMAIN pizza_rows :
                    /\ pizza_rows[p].order_id = order_id
                    /\ t \in DOMAIN pizza_types[pizza_rows[p].pizza_type_id].toppings}
    IN SumOver(using, [p \in using |-> pizza_types[pizza_rows[p].pizza_type_id].toppings[t]])

IngredientsOf(pizza_rows, order_id) ==
    {d \in Doughs : DoughUse(pizza_rows, order_id, d) > 0}
        \cup {t \in Toppings : ToppingUse(pizza_rows, order_id, t) > 0}

\* C1: beverage stock conservation. After every completed request of a
\* sequential run of the beverage endpoints, create_order (plain or from a
\* template) and delete_order, every beverage's stock plus the quantities of
\* all its stored order lines equals its initial stock.
C1_BeverageStockConserved ==
    \A b \in Beverages : beverage_stock[b] + LineQuantity(b) = InitialBeverageStock[b]

\* C2: ingredient stock conservation. Every add_pizza_to_order or
\* delete_pizza_from_order request (successful or failing) on an order whose
\* ingredients no other order uses changes each dough's and each topping's
\* stock by exactly minus the change of what the order's pizzas require of
\* it, and leaves no stock counter negative.
C2_IngredientStockConserved ==
    [][(/\ last'.op \in {"add_pizza_to_order", "delete_pizza_from_order"}
        /\ last'.order_id \in DOMAIN orders
        /\ \A other \in (DOMAIN orders) \ {last'.order_id} :
              (IngredientsOf(pizzas, last'.order_id) \cup IngredientsOf(pizzas', last'.order_id))
                  \cap IngredientsOf(pizzas, other) = {})
       => /\ \A d \in Doughs :
                dough_stock'[d] - dough_stock[d]
                    = DoughUse(pizzas, last'.order_id, d) - DoughUse(pizzas', last'.order_id, d)
          /\ \A t \in Toppings :
                topping_stock'[t] - topping_stock[t]
                    = ToppingUse(pizzas, last'.order_id, t) - ToppingUse(pizzas', last'.order_id, t)
          /\ \A d \in Doughs : dough_stock'[d] >= 0
          /\ \A t \in Toppings : topping_stock'[t] >= 0]_vars

\* C3: order copy is all-or-nothing. A create_order from an existing template
\* that ends in Conflict leaves no new order, pizza or beverage line stored and
\* every dough, topping and beverage stock at its value before the request.
C3_CopyIsAllOrNothing ==
    [][(/\ last'.op = "create_order"
        /\ last'.copy_order_id \in DOMAIN orders
        /\ last'.status = HTTP_409_CONFLICT)
       => /\ orders' = orders
          /\ pizzas' = pizzas
          /\ order_beverages' = order_beverages
          /\ UNCHANGED stock_vars]_vars

\* C4: delete_order of a stored order gives back, exactly once, the dough (1)
\* and the toppings (required quantity) of each of its pizzas and the quantity
\* of each of its beverage lines, removes the order with its pizzas and lines
\* and nothing else; delete_order of an unknown id is NotFound and changes
\* nothing.
C4_DeleteOrderRestoresOnce ==
    [][last'.op = "delete_order" =>
        LET o == last'.order_id IN
        IF o \in DOMAIN orders
        THEN /\ last'.status = HTTP_204_NO_CONTENT
             /\ \A d \in Doughs : dough_stock'[d] = dough_stock[d] + DoughUse(pizzas, o, d)
             /\ \A t \in Toppings : topping_stock'[t] = topping_stock[t] + ToppingUse(pizzas, o, t)
             /\ \A b \in Beverages :
                    beverage_stock'[b] = beverage_stock[b]
                        + (IF <<o, b>> \in DOMAIN order_beverages
                           THEN order_beverages[<<o, b>>] ELSE 0)
             /\ orders' = Drop(orders, {o})
             /\ pizzas' = Drop(pizzas, {p \in DOMAIN pizzas : pizzas[p].order_id = o})
             /\ order_beverages' = Drop(order_beverages,
                                        {k \in DOMAIN order_beverages : k[1] = o})
        ELSE /\ last'.status = HTTP_404_NOT_FOUND
             /\ UNCHANGED <<orders, pizzas, order_beverages, stock_vars>>]_vars

\* an order holding a pizza and a beverage line was deleted while another
\* order with a pizza stayed
C4_Witness ==
    /\ last.op = "delete_order"
    /\ last.status = HTTP_204_NO_CONTENT
    /\ last.n_pizzas >= 1
    /\ last.n_beverages >= 1
    /\ DOMAIN pizzas # {}

\* C5: a delete_pizza_from_order request answered NotFound leaves every dough
\* and topping stock unchanged.
C5_FailedRemoveKeepsStock ==
    [][(last'.op = "delete_pizza_from_order" /\ last'.status = HTTP_404_NOT_FOUND)
       => UNCHANGED <<dough_stock, topping_stock>>]_vars

\* C6: delete_pizza_from_order naming an order other than the pizza's own is
\* NotFound and the pizza stays; a pizza row disappears only through a
\* delete_pizza_from_order naming its own order or through the deletion of
\* that order.
C6_PizzaRemovedOnlyThroughItsOrder ==
    [][/\ (/\ last'.op = "delete_pizza_from_order"
           /\ last'.order_id \in DOMAIN orders
           /\ last'.pizza_id \in DOMAIN pizzas
           /\ pizzas[last'.pizza_id].order_id # last'.order_id)
          => (last'.status = HTTP_404_NOT_FOUND /\ pizzas' = pizzas)
       /\ \A p \in (DOMAIN pizzas) \ (DOMAIN pizzas') :
            \/ /\ last'.op = "delete_pizza_from_order"
               /\ last'.pizza_id = p
               /\ last'.order_id = pizzas[p].order_id
            \/ /\ last'.op = "delete_order"
               /\ last'.order_id = pizzas[p].order_id]_vars

\* a removal was asked through an order that is not the pizza's own
C6_Witness ==
    /\ last.op = "delete_pizza_from_order"
    /\ last.status = HTTP_404_NOT_FOUND
    /\ last.order_id \in DOMAIN orders
    /\ last.pizza_id \in DOMAIN pizzas
    /\ pizzas[last.pizza_id].order_id # last.order_id

\* C7: add_pizza_to_order of a pizza type whose dough stock is 0 or one of
\* whose toppings is below its required quantity is a Conflict, creates no
\* pizza and changes no stock; with dough stock 1 and topping stock 2
\* (required 2) the request succeeds and leaves both at 0.
C7_AddPizzaWithoutIngredientsConflicts ==
    [][(/\ last'.op = "add_pizza_to_order"
        /\ last'.order_id \in DOMAIN orders
        /\ last'.pizza_type_id \in DOMAIN pizza_types)
       => LET pizza_type == pizza_types[last'.pizza_type_id]
              unavailable ==
                \/ dough_stock[pizza_type.dough] = 0
                \/ \E t \in DOMAIN pizza_type.toppings :
                        topping_stock[t] < pizza_type.toppings[t]
          IN /\ unavailable =>
                    /\ last'.status = HTTP_409_CONFLICT
                    /\ pizzas' = pizzas
                    /\ UNCHANGED stock_vars
             /\ (/\ last'.pizza_type_id = "pt1"
                 /\ dough_stock["d1"] = 1
                 /\ topping_stock["t1"] = 2)
                => /\ last'.status = HTTP_200_OK
                   /\ dough_stock'["d1"] = 0
                   /\ topping_stock'["t1"] = 0
                   /\ DOMAIN pizzas' # DOMAIN pizzas]_vars

\* the second add of the scenario: Conflict with dough and topping at 0
C7_Witness ==
    /\ last.op = "add_pizza_to_order"
    /\ last.status = HTTP_409_CONFLICT
    /\ last.pizza_type_id = "pt1"
    /\ dough_stock["d1"] = 0
    /\ topping_stock["t1"] = 0
    /\ \E p \in DOMAIN pizzas : pizzas[p].pizza_type_id = "pt1"

\* C8: ingredients_are_available returns true if and only if the dough stock
\* is > 0 and every topping of the type has stock >= its required quantity,
\* for every integer value of the counters.
C8_AvailableIffStocked ==
    last.op = "ingredients_are_available" =>
        LET pizza_type == pizza_types[last.pizza_type_id] IN
        (last.status = HTTP_200_OK) <=>
            /\ dough_stock[pizza_type.dough] > 0
            /\ \A t \in DOMAIN pizza_type.toppings :
                    topping_stock[t] >= pizza_type.toppings[t]

\* C9: change_stock_of_beverage is a bounded update: when stock + delta < 0 it
\* returns failure and leaves the stock unchanged, otherwise it sets the stock
\* to stock + delta and returns success.
C9_ChangeStockIsBounded ==
    [][last'.op = "change_stock_of_beverage" =>
        LET b == last'.beverage_id
            delta == last'.quantity
        IN IF beverage_stock[b] + delta < 0
           THEN /\ last'.status = HTTP_409_CONFLICT
                /\ beverage_stock' = beverage_stock
           ELSE /\ last'.status = HTTP_200_OK
                /\ beverage_stock' = [beverage_stock EXCEPT ![b] = @ + delta]]_vars

\* a decrement by the whole stock succeeded and left 0
C9_Witness ==
    /\ last.op = "change_stock_of_beverage"
    /\ last.status = HTTP_200_OK
    /\ last.quantity < 0
    /\ beverage_stock[last.beverage_id] = 0

\* C10: create_order_beverage for a stored order and beverage without a line
\* and with quantity >= 1 succeeds if and only if the beverage stock is >=
\* the quantity; then the stock drops by exactly the quantity and one line of
\* that quantity is created; otherwise it is a Conflict, no line is created
\* and the stock is unchanged.
C10_AddBeverageLineIffStocked ==
    [][(/\ last'.op = "create_order_beverage"
        /\ last'.order_id \in DOMAIN orders
        /\ last'.beverage_id \in Beverages
        /\ <<last'.order_id, last'.beverage_id>> \notin DOMAIN order_beverages
        /\ last'.quantity >= 1)
       => LET o == last'.order_id
              b == last'.beverage_id
              quantity == last'.quantity
          IN IF beverage_stock[b] >= quantity
             THEN /\ last'.status = HTTP_201_CREATED
                  /\ beverage_stock' = [beverage_stock EXCEPT ![b] = @ - quantity]
                  /\ order_beverages' = Put(order_beverages, <<o, b>>, quantity)
             ELSE /\ last'.status = HTTP_409_CONFLICT
                  /\ order_beverages' = order_beverages
                  /\ beverage_stock' = beverage_stock]_vars

\* a line for the whole stock was created and left the stock at 0
C10_Witness ==
    /\ last.op = "create_order_beverage"
    /\ last.status = HTTP_201_CREATED
    /\ last.quantity = InitialBeverageStock[last.beverage_id]
    /\ beverage_stock[last.beverage_id] = 0
    /\ <<last.order_id, last.beverage_id>> \in DOMAIN order_beverages

\* C11: update_beverage_of_order with a quantity >= 1 on a stored line of
\* quantity old applies the stock change old - quantity: when the beverage
\* stock + old - quantity is below 0 the request is a Conflict and the line
\* and the stock are unchanged; otherwise the line quantity becomes the new
\* quantity and the stock changes by exactly old - quantity.
C11_UpdateLineMovesStockByDifference ==
    [][(/\ last'.op = "update_beverage_of_order"
        /\ last'.order_id \in DOMAIN orders
        /\ <<last'.order_id, last'.beverage_id>> \in DOMAIN order_beverages
        /\ last'.quantity >= 1)
       => LET k == <<last'.order_id, last'.beverage_id>>
              b == last'.beverage_id
              delta == order_beverages[k] - last'.quantity
          IN IF beverage_stock[b] + delta < 0
             THEN /\ last'.status = HTTP_409_CONFLICT
                  /\ order_beverages' = order_beverages
                  /\ beverage_stock' = beverage_stock
             ELSE /\ last'.status = HTTP_200_OK
                  /\ order_beverages' = [order_beverages EXCEPT ![k] = last'.quantity]
                  /\ beverage_stock' = [beverage_stock EXCEPT ![b] = @ + delta]]_vars

\* an increase beyond the stock was refused: the line kept its quantity
C11_Witness ==
    /\ last.op = "update_beverage_of_order"
    /\ last.status = HTTP_409_CONFLICT
    /\ <<last.order_id, last.beverage_id>> \in DOMAIN order_beverages
    /\ order_beverages[<<last.order_id, last.beverage_id>>] < last.quantity
    /\ beverage_stock[last.beverage_id]
            < last.quantity - order_beverages[<<last.order_id, last.beverage_id>>]

\* C12 as stated: create_order_beverage for an order and beverage that already
\* have a line is a Redirect whatever the requested quantity and the stock, and
\* leaves the lines and the stock unchanged.
C12_DuplicateLineRedirectsForAnyQuantity ==
    [][(/\ last'.op = "create_order_beverage"
        /\ last'.order_id \in DOMAIN orders
        /\ <<last'.order_id, last'.beverage_id>> \in DOMAIN order_beverages)
       => /\ last'.status = HTTP_303_SEE_OTHER
          /\ order_beverages' = order_beverages
          /\ beverage_stock' = beverage_stock]_vars

\* C12 amended: create_order_beverage with a quantity >= 1 for an order and
\* beverage that already have a line is a Redirect whatever the stock; with a
\* quantity <= 0 it is InvalidArgument; either way the lines and the stock are
\* unchanged.
C12_DuplicateLineRedirects ==
    [][(/\ last'.op = "create_order_beverage"
        /\ last'.order_id \in DOMAIN orders
        /\ <<last'.order_id, last'.beverage_id>> \in DOMAIN order_beverages)
       => /\ last'.status = (IF last'.quantity >= 1 THEN HTTP_303_SEE_OTHER
                                                     ELSE HTTP_422_UNPROCESSABLE_ENTITY)
          /\ order_beverages' = order_beverages
          /\ beverage_stock' = beverage_stock]_vars

\* a second line was asked for with a quantity the stock no longer covers
C12_Witness ==
    /\ last.op = "create_order_beverage"
    /\ last.status = HTTP_303_SEE_OTHER
    /\ <<last.order_id, last.beverage_id>> \in DOMAIN order_beverages
    /\ beverage_stock[last.beverage_id] < last.quantity

\* C13: every stored beverage line has a quantity >= 1 in every reachable
\* state, and create_order_beverage and update_beverage_of_order on a stored
\* order with a quantity <= 0 are InvalidArgument (422) and leave all lines
\* and all stock unchanged.
C13_LineQuantityAtLeastOne ==
    /\ [](\A k \in DOMAIN order_beverages : order_beverages[k] >= 1)
    /\ [][(/\ last'.op \in {"create_order_beverage", "update_beverage_of_order"}
           /\ last'.order_id \in DOMAIN orders
           /\ last'.quantity <= 0)
          => /\ last'.status = HTTP_422_UNPROCESSABLE_ENTITY
             /\ order_beverages' = order_beverages
             /\ UNCHANGED stock_vars]_vars

\* an update to a quantity <= 0 was refused on a stored line
C13_Witness ==
    /\ last.op = "update_beverage_of_order"
    /\ last.status = HTTP_422_UNPROCESSABLE_ENTITY
    /\ last.quantity <= 0
    /\ <<last.order_id, last.beverage_id>> \in DOMAIN order_beverages

\* C14: delete_beverage_from_order on a stored line of quantity q raises the
\* beverage's stock by exactly q and deletes that line and no other; when the
\* order or the line is not stored it is NotFound and the stock and all lines
\* are unchanged.
C14_RemoveLineRestoresStock ==
    [][last'.op = "delete_beverage_from_order" =>
        LET k == <<last'.order_id, last'.beverage_id>> IN
        IF last'.order_id \in DOMAIN orders /\ k \in DOMAIN order_beverages
        THEN /\ last'.status = HTTP_204_NO_CONTENT
             /\ beverage_stock' = [beverage_stock EXCEPT ![k[2]] = @ + order_beverages[k]]
             /\ order_beverages' = Drop(order_beverages, {k})
             /\ UNCHANGED <<dough_stock, topping_stock>>
        ELSE /\ last'.status = HTTP_404_NOT_FOUND
             /\ order_beverages' = order_beverages
             /\ UNCHANGED stock_vars]_vars

\* a line was removed while another line of the same beverage stayed
C14_Witness ==
    /\ last.op = "delete_beverage_from_order"
    /\ last.status = HTTP_204_NO_CONTENT
    /\ <<last.order_id, last.beverage_id>> \notin DOMAIN order_beverages
    /\ \E k \in DOMAIN order_beverages : k[2] = last.beverage_id
    /\ beverage_stock[last.beverage_id] >= 1

\* C19: every order a create_order request creates, plain or from a template,
\* has status TRANSMITTED right after the request, whatever the status of the
\* template.
C19_NewOrderIsTransmitted ==
    [][(last'.op = "create_order" /\ last'.status = HTTP_201_CREATED)
       => /\ last'.order_id \in (DOMAIN orders') \ (DOMAIN orders)
          /\ orders'[last'.order_id].order_status = TRANSMITTED]_vars

\* an order was copied from a completed template
C19_Witness ==
    /\ last.op = "create_order"
    /\ last.status = HTTP_201_CREATED
    /\ last.copy_order_id \in DOMAIN orders
    /\ last.was_status = COMPLETED
    /\ orders[last.order_id].order_status = TRANSMITTED

\* C20: update_order_status of a stored order with a valid status token
\* succeeds from every current status, COMPLETED and the status it already has
\* included; afterwards the order has that status, and its pizzas and lines,
\* every stock counter and every other order are unchanged.
C20_AnyStatusToAnyStatus ==
    [][(/\ last'.op = "update_order_status"
        /\ last'.order_id \in DOMAIN orders
        /\ upper(last'.order_status) \in OrderStatus)
       => /\ last'.status = HTTP_204_NO_CONTENT
          /\ orders' = [orders EXCEPT ![last'.order_id].order_status = upper(last'.order_status)]
          /\ pizzas' = pizzas
          /\ order_beverages' = order_beverages
          /\ UNCHANGED stock_vars]_vars

\* a completed order was moved back to an earlier status
C20_Witness ==
    /\ last.op = "update_order_status"
    /\ last.status = HTTP_204_NO_CONTENT
    /\ last.was_status = COMPLETED
    /\ orders[last.order_id].order_status = TRANSMITTED
    /\ BeveragesOf(last.order_id, DB) # {}

\* C18: in a sequential run of add_pizza_to_order, delete_pizza_from_order,
\* the three beverage line requests, create_order (plain or from a template)
\* and delete_order that starts with no stock below 0, the stock of every
\* dough, topping and beverage is >= 0 after every request.
C18_StockNeverNegative ==
    /\ \A d \in Doughs : dough_stock[d] >= 0
    /\ \A t \in Toppings : topping_stock[t] >= 0
    /\ \A b \in Beverages : beverage_stock[b] >= 0

\* a pizza was refused for a topping at 0 while its dough was still in stock,
\* and a beverage line for more than the stock was refused
C18_Witness ==
    /\ last.op = "add_pizza_to_order"
    /\ last.status = HTTP_409_CONFLICT
    /\ last.pizza_type_id = "pt2"
    /\ dough_stock["d2"] >= 1
    /\ topping_stock["t2"] = 0
    /\ beverage_stock["b1"] = 0

\* C15: in every interleaving of two concurrent create_order_beverage
\* requests for one beverage and two different orders, every stored line
\* stands for a successful decrement of its quantity: whenever no request is
\* in flight, every beverage's stock plus the quantities of its stored lines
\* equals its initial stock.
C15_ConcurrentLinesAreAccounted ==
    (\A c \in Clients : requests[c] = Idle)
        => \A b \in Beverages : beverage_stock[b] + LineQuantity(b) = InitialBeverageStock[b]

\* C16 as stated: two add_pizza_to_order requests that both passed
\* ingredients_are_available on the same stock before either reduced it both
\* decrement it: once both have reduced, the dough is down by 2 and every
\* topping by twice its required quantity (below 0 when the stock covered one
\* pizza only).
C16_BothRequestsDecrement ==
    \A c, e \in Clients :
        (/\ c # e
         /\ requests[c].pc = "pizza_add"
         /\ requests[e].pc = "pizza_add"
         /\ requests[c].pizza_type_id = requests[e].pizza_type_id
         /\ requests[c].session = requests[e].session)
        => LET pizza_type == pizza_types[requests[c].pizza_type_id] IN
           /\ dough_stock[pizza_type.dough] = requests[c].session.dough - 2
           /\ \A t \in DOMAIN pizza_type.toppings :
                topping_stock[t] = requests[c].session.toppings[t] - 2 * pizza_type.toppings[t]

\* C16 amended: two add_pizza_to_order requests that both passed
\* ingredients_are_available on the same stock before either reduced it both
\* succeed, but each writes the stock it read minus its own requirement: once
\* both have reduced, the stock is down by the requirement of one pizza only,
\* and no dough or topping stock is ever below 0.
C16_ConcurrentAddLosesDecrement ==
    /\ \A d \in Doughs : dough_stock[d] >= 0
    /\ \A t \in Toppings : topping_stock[t] >= 0
    /\ \A c, e \in Clients :
        (/\ c # e
         /\ requests[c].pc = "pizza_add"
         /\ requests[e].pc = "pizza_add"
         /\ requests[c].pizza_type_id = requests[e].pizza_type_id
         /\ requests[c].session = requests[e].session)
        => LET pizza_type == pizza_types[requests[c].pizza_type_id] IN
           /\ dough_stock[pizza_type.dough] = requests[c].session.dough - 1
           /\ \A t \in DOMAIN pizza_type.toppings :
                topping_stock[t] = requests[c].session.toppings[t] - pizza_type.toppings[t]

\* two pizzas of a type whose topping covered one pizza are stored, both
\* requests succeeded, and the topping is at 0
C16_Witness ==
    /\ \A c \in Clients : requests[c] = Idle
    /\ last.op = "add_pizza_to_order"
    /\ last.status = HTTP_200_OK
    /\ Cardinality({p \in DOMAIN pizzas : pizzas[p].pizza_type_id = "pt2"}) = 2
    /\ topping_stock["t2"] = 0
    /\ dough_stock["d2"] = 1

\* C17: in every interleaving of concurrent create_order_beverage,
\* update_beverage_of_order, delete_beverage_from_order, create_order from a
\* template and delete_order requests on one beverage, the beverage stock is
\* never below 0.
C17_BeverageStockNeverNegative ==
    \A b \in Beverages : beverage_stock[b] >= 0

\* a request is about to store a line whose decrement the stock, taken to 0
\* by the other client, could not cover
C17_Witness ==
    \E c \in Clients :
        /\ requests[c].pc = "line_create"
        /\ beverage_stock[requests[c].beverage_id] = 0
        /\ \E e \in Clients \ {c} : requests[e].pc \in {"line_create", "copy_create"}
        /\ LineQuantity(requests[c].beverage_id) = 0
        /\ requests[c].quantity = InitialBeverageStock[requests[c].beverage_id]

\* C21: get_orders_by_status returns every stored order when no status is
\* given, and otherwise exactly the stored orders whose current status is one
\* of the given ones; answered or refused, it changes no table and no stock.
C21_OrdersByStatuses ==
    [][last'.op = "get_orders_by_status"
       => /\ UNCHANGED <<orders, pizzas, order_beverages, pizza_types, catalog, stock_vars>>
          /\ last'.status = HTTP_200_OK
             => last'.result =
                    IF last'.statuses = {} THEN DOMAIN orders
                    ELSE {o \in DOMAIN orders :
                            \E token \in last'.statuses :
                                upper(token) = orders[o].order_status}]_vars

\* a query for one status returned some of the stored orders and left others out
C21_Witness ==
    /\ last.op = "get_orders_by_status"
    /\ last.status = HTTP_200_OK
    /\ last.statuses = {"preparing"}
    /\ last.result # {}
    /\ last.result # DOMAIN orders

\* the number of pizzas of a type in an order, and the quantity of a beverage
PizzasOfType(order_id, pt) ==
    Cardinality({p \in DOMAIN pizzas :
        pizzas[p].order_id = order_id /\ pizzas[p].pizza_type_id = pt})
QuantityIn(order_id, b) ==
    IF <<order_id, b>> \in DOMAIN order_beverages THEN order_beverages[<<order_id, b>>]
    ELSE 0

\* C22: the price get_price_of_order returns for a stored order is the sum,
\* over the beverages, of price times the quantity of the order's line of that
\* beverage, plus the sum, over the pizza types, of price times the number of
\* the order's pizzas of that type, at the current prices; lines and pizzas of
\* other orders do not count, and an empty order costs 0.
C22_PriceOfOrder ==
    (last.op = "get_price_of_order" /\ last.status = HTTP_200_OK)
    => last.price =
          SumOver(Beverages, [b \in Beverages |->
              catalog["beverage"][b].price * QuantityIn(last.order_id, b)])
          + SumOver(PizzaTypeIds, [pt \in PizzaTypeIds |->
              catalog["pizza_type"][pt].price * PizzasOfType(last.order_id, pt)])

\* an order with two pizzas of one type and a line was priced while another
\* order had a line too
C22_Witness ==
    /\ last.op = "get_price_of_order"
    /\ last.status = HTTP_200_OK
    /\ PizzasOfType(last.order_id, "pt1") = 2
    /\ catalog["pizza_type"]["pt1"].price = 2
    /\ BeveragesOf(last.order_id, DB) # {}
    /\ \E k \in DOMAIN order_beverages : k[1] # last.order_id

\* C23: get_price_of_order changes no order, pizza, line, catalog row or
\* stock counter, and asked again for the same order right after, it gives
\* the same answer.
C23_PriceReadOnly ==
    [][/\ last'.op = "get_price_of_order"
          => UNCHANGED <<orders, pizzas, order_beverages, pizza_types, catalog, stock_vars>>
       /\ (/\ last.op = "get_price_of_order"
           /\ last'.op = "get_price_of_order"
           /\ last'.order_id = last.order_id)
          => last'.price = last.price /\ last'.status = last.status]_vars

\* an order holding pizzas and lines was priced
C23_Witness ==
    /\ last.op = "get_price_of_order"
    /\ last.status = HTTP_200_OK
    /\ last.price >= 3
    /\ PizzasOf(last.order_id, DB) # {}
    /\ Cardinality(BeveragesOf(last.order_id, DB)) = 2

\* C30: in every reachable state and for every user, the order history and
\* the open orders of the user are disjoint and together are the stored
\* orders of the user; an order whose status was set is in the history of its
\* user if the new status is COMPLETED and among the open orders if it is not.
C30_HistoryAndOpenPartition ==
    /\ [](\A u \in Users :
            /\ get_order_history_of_user(u, DB) \cap get_open_orders_of_user(u, DB) = {}
            /\ get_order_history_of_user(u, DB) \cup get_open_orders_of_user(u, DB)
                  = {o \in DOMAIN orders : orders[o].user_id = u})
    /\ [][(last'.op = "update_order_status" /\ last'.status = HTTP_204_NO_CONTENT)
          => LET o == last'.order_id
                 u == orders[o].user_id
             IN IF upper(last'.order_status) = COMPLETED
                THEN /\ o \in get_order_history_of_user(u, DB')
                     /\ o \notin get_open_orders_of_user(u, DB')
                ELSE /\ o \in get_open_orders_of_user(u, DB')
                     /\ o \notin get_order_history_of_user(u, DB')]_vars

\* an open order was completed while its user had another open order and the
\* other user had an order too
C30_Witness ==
    /\ last.op = "update_order_status"
    /\ last.status = HTTP_204_NO_CONTENT
    /\ last.was_status # COMPLETED
    /\ last.order_id \in get_order_history_of_user("u1", DB)
    /\ get_open_orders_of_user("u2", DB) # {}

\* rows of a pizza table and of a line table that belong to an order
PizzaCount(pizza_rows, order_id, pt) ==
    Cardinality({p \in DOMAIN pizza_rows :
        pizza_rows[p].order_id = order_id /\ pizza_rows[p].pizza_type_id = pt})
LineOf(lines, order_id, b) ==
    IF <<order_id, b>> \in DOMAIN lines THEN lines[<<order_id, b>>] ELSE 0

\* C26: a create_order from a stored template that is answered Created has
\* stored a new order holding as many pizzas of each type as the template and
\* a line of the same quantity for each beverage of the template, has taken
\* from the stock one dough and the required toppings per template pizza and
\* the quantity of each template line, and has left the template's status,
\* pizzas and lines as they were; and it is answered Created whenever the
\* stock covers the whole template.
C26_CopyReplaysTemplate ==
    [][(/\ last'.op = "create_order"
        /\ last'.user_id \in Users
        /\ last'.copy_order_id \in DOMAIN orders)
       => LET template == last'.copy_order_id
              new == last'.order_id
          IN /\ (/\ \A d \in Doughs : dough_stock[d] >= DoughUse(pizzas, template, d)
                 /\ \A t \in Toppings : topping_stock[t] >= ToppingUse(pizzas, template, t)
                 /\ \A b \in Beverages : beverage_stock[b] >= LineOf(order_beverages, template, b))
                => last'.status = HTTP_201_CREATED
             /\ last'.status = HTTP_201_CREATED
                => /\ new \notin DOMAIN orders
                   /\ DOMAIN orders' = (DOMAIN orders) \cup {new}
                   /\ \A pt \in PizzaTypeIds :
                        PizzaCount(pizzas', new, pt) = PizzaCount(pizzas, template, pt)
                   /\ \A b \in Beverages :
                        LineOf(order_beverages', new, b) = LineOf(order_beverages, template, b)
                   /\ \A d \in Doughs :
                        dough_stock'[d] = dough_stock[d] - DoughUse(pizzas, template, d)
                   /\ \A t \in Toppings :
                        topping_stock'[t] = topping_stock[t] - ToppingUse(pizzas, template, t)
                   /\ \A b \in Beverages :
                        beverage_stock'[b]
                            = beverage_stock[b] - LineOf(order_beverages, template, b)
                   /\ orders'[template] = orders[template]
                   /\ \A p \in DOMAIN pizzas : p \in DOMAIN pizzas' /\ pizzas'[p] = pizzas[p]
                   /\ \A k \in DOMAIN order_beverages :
                        k \in DOMAIN order_beverages'
                        /\ order_beverages'[k] = order_beverages[k]]_vars

\* a template with a pizza and a line was copied
C26_Witness ==
    /\ last.op = "create_order"
    /\ last.status = HTTP_201_CREATED
    /\ last.copy_order_id \in DOMAIN orders
    /\ last.n_pizzas = 1
    /\ last.n_beverages = 1
    /\ PizzasOf(last.order_id, DB) # {}
    /\ BeveragesOf(last.order_id, DB) # {}

\* C27: a create_order for an unknown user, or for a known user from a
\* template id no stored order has, is answered NotFound and leaves the stored
\* orders, pizzas and lines and every stock counter as they were.
C27_CreateOrderNotFound ==
    [][(/\ last'.op = "create_order"
        /\ \/ last'.user_id \notin Users
           \/ last'.copy_order_id # NoCopy /\ last'.copy_order_id \notin DOMAIN orders)
       => /\ last'.status = HTTP_404_NOT_FOUND
          /\ orders' = orders
          /\ pizzas' = pizzas
          /\ order_beverages' = order_beverages
          /\ UNCHANGED stock_vars]_vars

\* a known user asked for a copy of an order that is not stored, while other
\* orders were
C27_Witness ==
    /\ last.op = "create_order"
    /\ last.status = HTTP_404_NOT_FOUND
    /\ last.user_id \in Users
    /\ last.copy_order_id = NoOrder
    /\ DOMAIN orders # {}
    /\ DOMAIN pizzas # {}

\* the database with every order in the status it is created in
Transmitted(db) ==
    [db EXCEPT !.orders = [o \in DOMAIN db.orders |->
                              [db.orders[o] EXCEPT !.order_status = TRANSMITTED]]]

\* what a request on the contents of an order does to a database
Composed(request, db) ==
    CASE request.op = "add_pizza_to_order" ->
            add_pizza_to_order(request.order_id, request.pizza_type_id, db)
      [] request.op = "delete_pizza_from_order" ->
            delete_pizza_from_order(request.order_id, request.pizza_id, db)
      [] request.op = "create_order_beverage" ->
            create_order_beverage(request.order_id, request.beverage_id, request.quantity, db)
      [] request.op = "update_beverage_of_order" ->
            update_beverage_of_order(request.order_id, request.beverage_id, request.quantity, db)
      [] request.op = "delete_beverage_from_order" ->
            delete_beverage_from_order(request.order_id, request.beverage_id, db)

\* C28: add_pizza_to_order, delete_pizza_from_order, create_order_beverage,
\* update_beverage_of_order and delete_beverage_from_order get the outcome
\* and have the effect on pizzas, lines and stock that they would have if
\* every order were TRANSMITTED, whatever the statuses of the orders are, and
\* they leave the status of every order as it was.
C28_CompositionIgnoresStatus ==
    [][last'.op \in {"add_pizza_to_order", "delete_pizza_from_order",
                     "create_order_beverage", "update_beverage_of_order",
                     "delete_beverage_from_order"}
       => LET expected == Composed(last', Transmitted(DB)) IN
          /\ last'.status = expected.status
          /\ pizzas' = expected.db.pizzas
          /\ order_beverages' = expected.db.order_beverages
          /\ dough_stock' = expected.db.dough_stock
          /\ topping_stock' = expected.db.topping_stock
          /\ beverage_stock' = expected.db.beverage_stock
          /\ orders' = orders]_vars

\* a pizza was added to a completed order
C28_Witness ==
    /\ last.op = "add_pizza_to_order"
    /\ last.status = HTTP_200_OK
    /\ last.was_status = COMPLETED
    /\ orders[last.order_id].order_status = COMPLETED
    /\ last.pizza_id \in PizzasOf(last.order_id, DB)

\* a catalog row with all its columns, and the four tables as such rows
RowOf(kind, id, db) ==
    [name |-> db.catalog[kind][id].name, price |-> db.catalog[kind][id].price,
     fields |-> CASE kind = "dough" -> db.dough_stock[id]
                  [] kind = "topping" -> db.topping_stock[id]
                  [] kind = "beverage" -> db.beverage_stock[id]
                  [] kind = "pizza_type" -> db.pizza_types[id]]
AllRows(db) ==
    [kind \in Kinds |-> [id \in DOMAIN db.catalog[kind] |-> RowOf(kind, id, db)]]

\* the row a schema describes; a pizza type has the toppings given
SchemaRow(kind, schema, toppings) ==
    [name |-> schema.name, price |-> schema.price,
     fields |-> IF kind = "pizza_type"
                THEN [dough |-> schema.dough_id, toppings |-> toppings]
                ELSE schema.stock]

\* C24: in every reachable state no two rows of one catalog table have the
\* same name; a create under a name a row of the table already has is
\* answered with a redirect to that row and changes no column of any row, the
\* stock included; a create answered Created has stored one new row, the only
\* one of its name.
C24_CreateIsIdempotentByName ==
    /\ [](\A kind \in Kinds : \A i, j \in DOMAIN catalog[kind] :
            catalog[kind][i].name = catalog[kind][j].name => i = j)
    /\ [][last'.op = "create_item"
          => LET kind == last'.kind
                 named == {id \in DOMAIN catalog[kind] :
                              catalog[kind][id].name = last'.schema.name}
             IN /\ named # {}
                   => /\ last'.status = HTTP_303_SEE_OTHER
                      /\ last'.result = named
                      /\ AllRows(DB') = AllRows(DB)
                /\ last'.status = HTTP_201_CREATED
                   => /\ named = {}
                      /\ \E id \in (DOMAIN catalog'[kind]) \ DOMAIN catalog[kind] :
                            /\ last'.result = {id}
                            /\ AllRows(DB')
                                 = [AllRows(DB) EXCEPT ![kind] =
                                      Put(@, id, SchemaRow(kind, last'.schema, EmptyTable))]]_vars

\* a second create of a beverage the run has created, with another stock, was
\* redirected to the stored row
C24_Witness ==
    /\ last.op = "create_item"
    /\ last.kind = "beverage"
    /\ last.status = HTTP_303_SEE_OTHER
    /\ last.result # {}
    /\ last.result \subseteq NewRows(last.kind)
    /\ \E id \in last.result : RowOf(last.kind, id, DB).fields # last.schema.stock

\* C25: an update of a catalog row that is not stored is answered NotFound
\* and changes nothing. An update of a stored row (1) under the name the row
\* has sets the columns of the row to the schema's, under the same id; (2)
\* under the name of another stored row changes nothing and redirects to that
\* row; (3) under a name no row has stores a new row with a new id and the
\* schema's columns and leaves the addressed row, like every other row, as it
\* was.
C25_UpdateBranches ==
    [][last'.op = "update_item"
       => LET kind == last'.kind
              id == last'.item_id
              schema == last'.schema
              named == {j \in DOMAIN catalog[kind] : catalog[kind][j].name = schema.name}
          IN IF id \notin DOMAIN catalog[kind]
             THEN last'.status = HTTP_404_NOT_FOUND /\ AllRows(DB') = AllRows(DB)
             ELSE IF catalog[kind][id].name = schema.name
             THEN /\ last'.status = HTTP_204_NO_CONTENT
                  /\ AllRows(DB')
                       = [AllRows(DB) EXCEPT ![kind][id] =
                            SchemaRow(kind, schema,
                                IF kind = "pizza_type" THEN pizza_types[id].toppings
                                                       ELSE EmptyTable)]
             ELSE IF named # {}
             THEN /\ last'.status = HTTP_303_SEE_OTHER
                  /\ last'.result = named
                  /\ id \notin named
                  /\ AllRows(DB') = AllRows(DB)
             ELSE /\ last'.status = HTTP_201_CREATED
                  /\ \E new \in (DOMAIN catalog'[kind]) \ DOMAIN catalog[kind] :
                        /\ last'.result = {new}
                        /\ AllRows(DB')
                             = [AllRows(DB) EXCEPT ![kind] =
                                  Put(@, new, SchemaRow(kind, schema, EmptyTable))]]_vars

\* an update of a pizza type under an unused name stored a new row next to the
\* addressed one, which kept its name
C25_Witness ==
    /\ last.op = "update_item"
    /\ last.kind = "pizza_type"
    /\ last.status = HTTP_201_CREATED
    /\ last.item_id \in DOMAIN catalog["pizza_type"]
    /\ catalog["pizza_type"][last.item_id].name # last.schema.name
    /\ \E new \in last.result : catalog["pizza_type"][new].name = last.schema.name

\* C29: removing a pizza, alone or with its order, gives back the dough and
\* the toppings taken when the pizza was added, also when the recipe of its
\* type was edited in between: whenever no pizza is stored, every dough and
\* topping stock is at the value the run started with.
C29_RestorationMatchesDeduction ==
    DOMAIN pizzas = {}
    => /\ \A d \in Doughs : dough_stock[d] = InitialDoughStock[d]
       /\ \A t \in Toppings : topping_stock[t] = InitialToppingStock[t]

====
